---- MODULE Spec2Model ----
(***************************************************************************)
(* A model of the SPACE protocol stack of spacesuit_tool_20231005:         *)
(* space.py (typed parsers, frame codec, SpaceProtocol.send_message),      *)
(* ace_common.py / ace_max.py / ace_radhard.py (the command catalog) and   *)
(* spacesuit.py (LoggingSpaceProtocol, get_protocol).                      *)
(*                                                                         *)
(* Bytes are the integers 0..255, byte strings are sequences of them.      *)
(* Times are in milliseconds.                                              *)
(***************************************************************************)
EXTENDS Integers, Sequences, FiniteSets, TLC

(***************************************************************************)
(* Python's integer operators ^ and | on non-negative integers.            *)
(***************************************************************************)
RECURSIVE BitXor(_, _)
BitXor(a, b) ==
  IF a = 0 THEN b
  ELSE IF b = 0 THEN a
  ELSE (((a % 2) + (b % 2)) % 2) + 2 * BitXor(a \div 2, b \div 2)

RECURSIVE BitOr(_, _)
BitOr(a, b) ==
  IF a = 0 THEN b
  ELSE IF b = 0 THEN a
  ELSE (IF (a % 2) = 1 \/ (b % 2) = 1 THEN 1 ELSE 0) + 2 * BitOr(a \div 2, b \div 2)

(***************************************************************************)
(* Constants of space.py.                                                  *)
(***************************************************************************)
SPACE_PING == "ping"
MINIMUM_DEADLINE == 2
SYNC_SEQUENCE == <<26, 206>>
COMMAND_BYTE == 160
REPLY_BYTE == 176
CRC_INITIAL == 65535
CRC_XOR == 44257
MAX_MESSAGE_SIZE == 127
EXTRA_DEADLINE == 100
\* Python's None where a deadline is expected.
NoDeadline == -1
\* Python's None where a parser is expected.
NoParser == [kind |-> "None", oid |-> 0]
\* Python's None where a maximum length is expected.
NoMaxLength == -1
\* Python's None where a string is expected.
None == "None"
\* An empty dict.
EmptyDict == [k \in {} |-> None]

(***************************************************************************)
(* Exceptions: a call either returns or raises; a raised exception is      *)
(* named by its Python class.                                              *)
(***************************************************************************)
Raise(error) == [ok |-> FALSE, error |-> error]
Parsed(data, rest) == [ok |-> TRUE, data |-> data, rest |-> rest]

(***************************************************************************)
(* SpaceData objects.                                                      *)
(***************************************************************************)
EmptyData(label) == [t |-> "EmptyData", label |-> label]
\* An integer value is kept as sign and little-endian magnitude bytes, one
\* byte per 8 bits of the width, since a 32- or 64-bit value need not fit a
\* model integer.
IntegerData(value, bits, signed) ==
  [t |-> "IntegerData", value |-> value, bits |-> bits, signed |-> signed]
ByteData(value, label) == [t |-> "ByteData", value |-> value, label |-> label]
\* A float value is kept as the four bytes of its IEEE-754 single.
FloatData(value, units) == [t |-> "FloatData", value |-> value, units |-> units]
StringData(value) == [t |-> "StringData", value |-> value]
ListData(fields, sep) == [t |-> "ListData", fields |-> fields, sep |-> sep]
MessageData(fields, sep, deadline) ==
  [t |-> "MessageData", fields |-> fields, sep |-> sep, deadline |-> deadline]

(***************************************************************************)
(* struct.pack / struct.unpack for the little-endian integer formats.      *)
(***************************************************************************)
Invert(s) == [i \in DOMAIN s |-> 255 - s[i]]

RECURSIVE AddOne(_)
AddOne(s) ==
  IF s = <<>> THEN <<>>
  ELSE IF Head(s) = 255 THEN <<0>> \o AddOne(Tail(s))
  ELSE <<Head(s) + 1>> \o Tail(s)

\* struct.unpack(struct_format(bits, signed), parse)[0]
struct_unpack(bits, signed, parse) ==
  IF signed /\ parse[Len(parse)] >= 128
  THEN [neg |-> TRUE, mag |-> AddOne(Invert(parse))]
  ELSE [neg |-> FALSE, mag |-> parse]

\* struct.pack(struct_format(bits, signed), value)
struct_pack(bits, signed, value) ==
  IF value.neg THEN AddOne(Invert(value.mag)) ELSE value.mag

\* struct.pack('>H', crc): the big-endian order, which the code does not use.
struct_pack_H_big(crc) == <<crc \div 256, crc % 256>>

\* struct.pack('<H', crc)
struct_pack_H(crc) == <<crc % 256, crc \div 256>>

(***************************************************************************)
(* SpaceData.to_binary                                                     *)
(***************************************************************************)
\* b''.join(x.to_binary() for x in fields[lo..hi]); the fields are joined by
\* halves, which keeps the evaluation shallow for a long list.
RECURSIVE to_binary(_)
RECURSIVE join_range(_, _, _)
join_range(fields, lo, hi) ==
  IF lo > hi THEN <<>>
  ELSE IF lo = hi THEN to_binary(fields[lo])
  ELSE LET mid == (lo + hi) \div 2
       IN join_range(fields, lo, mid) \o join_range(fields, mid + 1, hi)
join_binary(fields) == join_range(fields, 1, Len(fields))

to_binary(data) ==
  CASE data.t = "EmptyData" -> <<>>
    [] data.t = "IntegerData" -> struct_pack(data.bits, data.signed, data.value)
    [] data.t = "ByteData" -> <<data.value>>
    [] data.t = "FloatData" -> data.value
    [] data.t = "StringData" -> data.value \o <<0>>
    [] data.t = "ListData" -> join_binary(data.fields)
    [] data.t = "MessageData" -> join_binary(data.fields)

(***************************************************************************)
(* Python slices binary[:n] and binary[n:], and str(n) for n >= 0.         *)
(***************************************************************************)
Take(s, n) == IF n >= Len(s) THEN s ELSE SubSeq(s, 1, n)
Drop(s, n) == IF n >= Len(s) THEN SubSeq(s, 1, 0) ELSE SubSeq(s, n + 1, Len(s))

RECURSIVE str(_)
str(n) ==
  IF n < 10 THEN SubSeq("0123456789", n + 1, n + 1)
  ELSE str(n \div 10) \o SubSeq("0123456789", (n % 10) + 1, (n % 10) + 1)

(***************************************************************************)
(* Parser objects (SpaceParser subclasses) as records.                     *)
(***************************************************************************)
\* oid is the identity of the Python object: parsers have no __eq__, so two
\* parser objects are equal only when they are the same object.
IntegerParser(oid, bits, signed) ==
  [kind |-> "IntegerParser", oid |-> oid, bits |-> bits, signed |-> signed,
   sep |-> " "]
ByteParser(oid) == IntegerParser(oid, 8, FALSE)
FloatParser(oid) == [kind |-> "FloatParser", oid |-> oid, units |-> None, sep |-> " "]
StringParser(oid) == [kind |-> "StringParser", oid |-> oid, sep |-> " "]
ListParser(oid, parser, max_length) ==
  [kind |-> "ListParser", oid |-> oid, parser |-> parser,
   max_length |-> max_length, sep |-> " "]
PairParser(oid, first_parser, default_parser, sep) ==
  [kind |-> "PairParser", oid |-> oid, first_parser |-> first_parser,
   default_parser |-> default_parser, second_parsers |-> EmptyDict, sep |-> sep]
MessageParser(oid, type_parser) ==
  [kind |-> "MessageParser", oid |-> oid, first_parser |-> type_parser,
   default_parser |-> NoParser, second_parsers |-> EmptyDict,
   deadlines |-> EmptyDict, sep |-> " "]
\* IdentifierParser.__init__
NewIdentifierParser(oid) ==
  [kind |-> "IdentifierParser", oid |-> oid, sep |-> " ",
   code_to_label |-> EmptyDict, label_to_code |-> EmptyDict]

\* dict[key] = value
DictSet(dict, key, value) ==
  [k \in DOMAIN dict \cup {key} |-> IF k = key THEN value ELSE dict[k]]

(***************************************************************************)
(* IdentifierParser.add: the object after the call and the exception the   *)
(* call raised, if any (the object keeps what was stored before the raise).*)
(***************************************************************************)
\* A faulty variant: a name that resolves to another code is taken over.
RECURSIVE add_aliases_overwriting(_, _, _)
add_aliases_overwriting(self, code, names) ==
  IF names = <<>> THEN [self |-> self, error |-> None]
  ELSE add_aliases_overwriting(
         [self EXCEPT !.label_to_code = DictSet(self.label_to_code, Head(names), code)],
         code, Tail(names))

RECURSIVE add_aliases(_, _, _)
add_aliases(self, code, names) ==
  IF names = <<>> THEN [self |-> self, error |-> None]
  ELSE LET alias == Head(names)
       IN IF alias \in DOMAIN self.label_to_code /\ code # self.label_to_code[alias]
          THEN [self |-> self, error |-> "InitializationError"]
          ELSE add_aliases(
                 [self EXCEPT !.label_to_code = DictSet(self.label_to_code, alias, code)],
                 code, Tail(names))

IdentifierParser_add(self, code, label, aliases) ==
  IF ~(0 <= code /\ code <= 255) THEN [self |-> self, error |-> "ParameterInvalid"]
  ELSE IF code \in DOMAIN self.code_to_label /\ label # self.code_to_label[code]
  THEN [self |-> self, error |-> "InitializationError"]
  ELSE add_aliases(
         [self EXCEPT !.code_to_label = DictSet(self.code_to_label, code, label)],
         code, <<label, str(code)>> \o aliases)

\* A module-level table: IdentifierParser() followed by its add() calls
\* adds[lo..hi] in order, stopping at the first that raises (the calls are
\* run by halves, which keeps the evaluation shallow).
RECURSIVE add_range(_, _, _, _)
add_range(self, adds, lo, hi) ==
  IF lo > hi THEN [self |-> self, error |-> None]
  ELSE IF lo = hi
  THEN IdentifierParser_add(self, adds[lo][1], adds[lo][2], adds[lo][3])
  ELSE LET mid == (lo + hi) \div 2
           r == add_range(self, adds, lo, mid)
       IN IF r.error # None THEN r ELSE add_range(r.self, adds, mid + 1, hi)
IdentifierTable(self, adds) == add_range(self, adds, 1, Len(adds))

(***************************************************************************)
(* SpaceParser.from_binary for every parser class.  The result is          *)
(* Parsed(data, rest) or Raise(exception class).                           *)
(***************************************************************************)
\* The dict key a parsed first field makes: ByteData and IntegerData values
\* are Python ints; an int above 255 is the key of no parser table.
KeyOf(data) ==
  CASE data.t = "ByteData" -> data.value
    [] data.t = "IntegerData" ->
         IF ~data.value.neg /\ \A i \in 2..Len(data.value.mag) : data.value.mag[i] = 0
         THEN data.value.mag[1] ELSE 256
    [] OTHER -> 256

\* dict.get(key, default)
DictGet(dict, key, default) == IF key \in DOMAIN dict THEN dict[key] ELSE default

IntegerParser_from_binary(self, binary) ==
  LET length == (self.bits + 7) \div 8
      parse == Take(binary, length)
      rest == Drop(binary, length)
  IN IF Len(parse) # length THEN Raise("struct.error")
     ELSE Parsed(IntegerData(struct_unpack(self.bits, self.signed, parse),
                             self.bits, self.signed), rest)

FloatParser_from_binary(self, binary) ==
  LET parse == Take(binary, 4)
      rest == Drop(binary, 4)
  IN IF Len(parse) # 4 THEN Raise("struct.error")
     ELSE Parsed(FloatData(parse, self.units), rest)

\* Index of the first zero byte, 0 when there is none.
FindNull(binary) ==
  LET nulls == {i \in DOMAIN binary : binary[i] = 0}
  IN IF nulls = {} THEN 0 ELSE CHOOSE i \in nulls : \A j \in nulls : i <= j

StringParser_from_binary(self, binary) ==
  LET n == FindNull(binary)
  IN IF n = 0 THEN Raise("ParseError")
     ELSE Parsed(StringData(Take(binary, n - 1)), Drop(binary, n))

IdentifierParser_from_binary(self, binary) ==
  IF binary = <<>> THEN Raise("IndexError")
  ELSE LET code == binary[1]
           rest == Drop(binary, 1)
       IN IF code \notin DOMAIN self.code_to_label THEN Raise("IdentifierUnknown")
          ELSE Parsed(ByteData(code, self.code_to_label[code]), rest)

RECURSIVE from_binary(_, _)
\* At most n rounds of the while loop of ListParser.from_binary, from the
\* loop state (fields, binary): the state after them, or what a round raised.
\* (n rounds are run as two runs of about n/2, which keeps the evaluation
\* shallow for a long list.)
RECURSIVE ListParser_loop(_, _, _, _)
ListParser_loop(self, fields, binary, n) ==
  IF n = 0 THEN Parsed(fields, binary)
  ELSE IF n = 1
  THEN IF binary # <<>>
          /\ (self.max_length = NoMaxLength \/ Len(fields) < self.max_length)
       THEN LET r == from_binary(self.parser, binary)
            IN IF ~r.ok THEN r ELSE Parsed(Append(fields, r.data), r.rest)
       ELSE Parsed(fields, binary)
  ELSE LET r == ListParser_loop(self, fields, binary, n \div 2)
       IN IF ~r.ok THEN r ELSE ListParser_loop(self, r.data, r.rest, n - (n \div 2))

\* Every inner parser of the catalogs consumes at least one byte of a
\* non-empty input or raises, so the loop ends within Len(binary) rounds.
ListParser_from_binary(self, binary) ==
  LET r == ListParser_loop(self, <<>>, binary, Len(binary))
  IN IF ~r.ok THEN r ELSE Parsed(ListData(r.data, self.sep), r.rest)

\* A faulty variant: the second parser is the default one whatever the code.
PairParser_from_binary_default_only(self, binary) ==
  LET r1 == from_binary(self.first_parser, binary)
  IN IF ~r1.ok THEN r1
     ELSE LET first == r1.data
              parser == self.default_parser
          IN IF parser.oid = NoParser.oid
             THEN IF r1.rest = <<>>
                  THEN Parsed(ListData(<<first>>, self.sep), r1.rest)
                  ELSE Raise("IdentifierUnknown")
             ELSE LET r2 == from_binary(parser, r1.rest)
                  IN IF ~r2.ok THEN r2
                     ELSE Parsed(ListData(<<first, r2.data>>, self.sep), r2.rest)

PairParser_from_binary(self, binary) ==
  LET r1 == from_binary(self.first_parser, binary)
  IN IF ~r1.ok THEN r1
     ELSE LET first == r1.data
              parser == DictGet(self.second_parsers, KeyOf(first), self.default_parser)
          IN IF parser.oid = NoParser.oid
             THEN IF r1.rest = <<>>
                  THEN Parsed(ListData(<<first>>, self.sep), r1.rest)
                  ELSE Raise("IdentifierUnknown")
             ELSE LET r2 == from_binary(parser, r1.rest)
                  IN IF ~r2.ok THEN r2
                     ELSE Parsed(ListData(<<first, r2.data>>, self.sep), r2.rest)

MessageParser_from_binary(self, binary) ==
  IF binary = <<>>
  THEN Parsed(MessageData(<<EmptyData(SPACE_PING)>>, " ", MINIMUM_DEADLINE), <<>>)
  ELSE LET r == PairParser_from_binary(self, binary)
       IN IF ~r.ok THEN r
          ELSE IF r.data.fields[1].value \notin DOMAIN self.deadlines
          THEN Raise("KeyError")
          ELSE Parsed(MessageData(r.data.fields, self.sep,
                                  self.deadlines[r.data.fields[1].value]), r.rest)

from_binary(self, binary) ==
  CASE self.kind = "IntegerParser" -> IntegerParser_from_binary(self, binary)
    [] self.kind = "FloatParser" -> FloatParser_from_binary(self, binary)
    [] self.kind = "StringParser" -> StringParser_from_binary(self, binary)
    [] self.kind = "IdentifierParser" -> IdentifierParser_from_binary(self, binary)
    [] self.kind = "ListParser" -> ListParser_from_binary(self, binary)
    [] self.kind = "PairParser" -> PairParser_from_binary(self, binary)
    [] self.kind = "MessageParser" -> MessageParser_from_binary(self, binary)

(***************************************************************************)
(* Text helpers: Python's "sep in text" and text.split(sep, 1).            *)
(***************************************************************************)
\* Index of the first occurrence of sep in text, 0 when there is none.
FindSep(text, sep) ==
  LET hits == {i \in 1..(Len(text) - Len(sep) + 1) :
                 SubSeq(text, i, i + Len(sep) - 1) = sep}
  IN IF hits = {} THEN 0 ELSE CHOOSE i \in hits : \A j \in hits : i <= j

\* The pair (parse, rest) the from_text methods start with.
SplitSep(text, sep) ==
  LET i == FindSep(text, sep)
  IN IF i = 0 THEN <<text, "">>
     ELSE <<Take(text, i - 1), Drop(text, i + Len(sep) - 1)>>

\* str.strip() of a text whose only whitespace is the space, and
\* str.startswith.
RECURSIVE strip(_)
strip(text) ==
  IF text = "" THEN ""
  ELSE IF SubSeq(text, 1, 1) = " " THEN strip(Drop(text, 1))
  ELSE IF SubSeq(text, Len(text), Len(text)) = " "
  THEN strip(Take(text, Len(text) - 1))
  ELSE text
startswith(text, prefix) ==
  Len(text) >= Len(prefix) /\ SubSeq(text, 1, Len(prefix)) = prefix

(***************************************************************************)
(* Python's int(text) and int(text, 16).  A Python int is unbounded; the   *)
(* model keeps sign, WideBytes little-endian magnitude bytes and a flag    *)
(* "over" for a magnitude that needs more bytes than that (such a value is *)
(* outside every supported width).                                         *)
(***************************************************************************)
WideBytes == 9
Zeros(n) == [i \in 1..n |-> 0]

\* mag * base + digit on little-endian bytes; carry is the carry out.
RECURSIVE MulAdd(_, _, _)
MulAdd(mag, base, carry) ==
  IF mag = <<>> THEN [mag |-> <<>>, carry |-> carry]
  ELSE LET v == Head(mag) * base + carry
           r == MulAdd(Tail(mag), base, v \div 256)
       IN [mag |-> <<v % 256>> \o r.mag, carry |-> r.carry]

DigitValue(c) ==
  LET lower == {i \in 1..16 : SubSeq("0123456789abcdef", i, i) = c}
      upper == {i \in 11..16 : SubSeq("0123456789ABCDEF", i, i) = c}
  IN IF lower \cup upper = {} THEN 99 ELSE (CHOOSE i \in lower \cup upper : TRUE) - 1

\* The digits text[i..] read into the value acc; "_" is skipped (its places
\* are checked by ValidDigits).  Reading stops once the value is over: more
\* digits only make it larger.
RECURSIVE ReadDigits(_, _, _, _)
ReadDigits(text, i, base, acc) ==
  IF i > Len(text) THEN acc
  ELSE IF SubSeq(text, i, i) = "_" THEN ReadDigits(text, i + 1, base, acc)
  ELSE LET r == MulAdd(acc.mag, base, DigitValue(SubSeq(text, i, i)))
       IN IF r.carry # 0 THEN [mag |-> r.mag, over |-> TRUE]
          ELSE ReadDigits(text, i + 1, base, [mag |-> r.mag, over |-> FALSE])

\* Digits of the base with single underscores between them.
ValidDigits(text, base) ==
  /\ text # ""
  /\ \A i \in 1..Len(text) :
       LET c == SubSeq(text, i, i)
       IN IF c = "_"
          THEN i > 1 /\ i < Len(text) /\ SubSeq(text, i + 1, i + 1) # "_"
          ELSE DigitValue(c) < base

\* int(text, base): [ok |-> TRUE, neg, mag, over], or ok |-> FALSE for
\* ValueError.  The texts of the model hold no whitespace.
py_int(text, base) ==
  LET signed == Take(text, 1) \in {"+", "-"}
      body == IF signed THEN Drop(text, 1) ELSE text
      prefixed == base = 16 /\ Take(body, 2) \in {"0x", "0X"}
      after == IF prefixed THEN Drop(body, 2) ELSE body
      digits == IF prefixed /\ Take(after, 1) = "_" THEN Drop(after, 1) ELSE after
  IN IF ~ValidDigits(digits, base) THEN [ok |-> FALSE]
     ELSE LET v == ReadDigits(digits, 1, base, [mag |-> Zeros(WideBytes), over |-> FALSE])
              zero == ~v.over /\ \A i \in 1..WideBytes : v.mag[i] = 0
          IN [ok |-> TRUE, neg |-> Take(text, 1) = "-" /\ ~zero,
              mag |-> v.mag, over |-> v.over]

RECURSIVE SubOne(_)
SubOne(s) ==
  IF s = <<>> THEN <<>>
  ELSE IF Head(s) = 0 THEN <<255>> \o SubOne(Tail(s))
  ELSE <<Head(s) - 1>> \o Tail(s)

\* IntegerData.__init__ on a Python int: the range check of lines 176-182.
\* Returns [ok |-> TRUE, data] or Raise("ParameterInvalid").
IntegerData_init(value, bits, signed) ==
  LET n == bits \div 8
      low == Take(value.mag, n)
      high == Drop(value.mag, n)
      fits == ~value.over /\ \A i \in DOMAIN high : high[i] = 0
      lowzero == \A i \in 1..(n - 1) : low[i] = 0
      inrange ==
        IF ~signed THEN fits /\ ~value.neg
        ELSE IF value.neg THEN fits /\ (low[n] < 128 \/ (low[n] = 128 /\ lowzero))
        ELSE fits /\ low[n] < 128
  IN IF inrange
     THEN [ok |-> TRUE, data |-> IntegerData([neg |-> value.neg, mag |-> low], bits, signed)]
     ELSE Raise("ParameterInvalid")

(***************************************************************************)
(* SpaceParser.from_text for the identifier, integer, float, string, list,  *)
(* pair and message parsers.  The result is Parsed(data, rest) or          *)
(* Raise(exception class); rest is a text ('' and b'' are alike wherever   *)
(* rest is tested).                                                        *)
(***************************************************************************)
IntegerParser_from_text(self, text) ==
  LET parse == SplitSep(text, self.sep)[1]
      rest == SplitSep(text, self.sep)[2]
      n == self.bits \div 8
      made(r) == IF ~r.ok THEN r ELSE Parsed(r.data, rest)
      wrapped(v, fits, wraps) ==
        made(IntegerData_init(
               IF ~wraps THEN v
               ELSE IF fits
               THEN [ok |-> TRUE, neg |-> TRUE, over |-> FALSE,
                     mag |-> AddOne(Invert(Take(v.mag, n))) \o Zeros(WideBytes - n)]
               ELSE [v EXCEPT !.mag = Take(v.mag, n) \o SubOne(Drop(v.mag, n))],
               self.bits, self.signed))
      fitted(v, fits) ==
        wrapped(v, fits, self.signed /\ ~v.neg /\ (~fits \/ v.mag[n] >= 128))
      hexadecimal(v) ==
        IF ~v.ok THEN Raise("ParseError")
        ELSE fitted(v, ~v.over /\ \A i \in (n + 1)..WideBytes : v.mag[i] = 0)
      decimal(v) ==
        IF ~v.ok THEN Raise("ParseError")
        ELSE made(IntegerData_init(v, self.bits, self.signed))
  IN IF Take(parse, 2) \in {"0x", "0X"} THEN hexadecimal(py_int(Drop(parse, 2), 16))
     ELSE decimal(py_int(parse, 10))

IdentifierParser_from_text(self, text) ==
  LET label == SplitSep(text, self.sep)[1]
      rest == SplitSep(text, self.sep)[2]
  IN IF label \notin DOMAIN self.label_to_code THEN Raise("IdentifierUnknown")
     ELSE LET code == self.label_to_code[label]
          IN Parsed(ByteData(code, self.code_to_label[code]), rest)

RECURSIVE from_text(_, _)
\* At most n rounds of the while loop of ListParser.from_text, run by halves
\* like ListParser_loop.
RECURSIVE ListParser_text_loop(_, _, _, _)
ListParser_text_loop(self, fields, text, n) ==
  IF n = 0 THEN Parsed(fields, text)
  ELSE IF n = 1
  THEN IF text # ""
          /\ (self.max_length = NoMaxLength \/ Len(fields) < self.max_length)
       THEN LET r == from_text(self.parser, text)
            IN IF ~r.ok THEN r ELSE Parsed(Append(fields, r.data), r.rest)
       ELSE Parsed(fields, text)
  ELSE LET r == ListParser_text_loop(self, fields, text, n \div 2)
       IN IF ~r.ok THEN r ELSE ListParser_text_loop(self, r.data, r.rest, n - (n \div 2))

\* Every inner parser of the catalogs consumes at least one character of a
\* non-empty text or raises, so the loop ends within Len(text) rounds.
ListParser_from_text(self, text) ==
  LET r == ListParser_text_loop(self, <<>>, text, Len(text))
  IN IF ~r.ok THEN r ELSE Parsed(ListData(r.data, self.sep), r.rest)

PairParser_from_text(self, text) ==
  LET first_text == SplitSep(text, self.sep)[1]
      second_text == SplitSep(text, self.sep)[2]
      r1 == from_text(self.first_parser, first_text)
  IN IF ~r1.ok THEN r1
     ELSE IF r1.rest # "" THEN Raise("ParseError")
     ELSE LET first == r1.data
              parser == DictGet(self.second_parsers, KeyOf(first), self.default_parser)
          IN IF parser.oid = NoParser.oid
             THEN IF second_text = ""
                  THEN Parsed(ListData(<<first>>, self.sep), second_text)
                  ELSE Raise("IdentifierUnknown")
             ELSE LET r2 == from_text(parser, second_text)
                  IN IF ~r2.ok THEN r2
                     ELSE Parsed(ListData(<<first, r2.data>>, self.sep), r2.rest)

MessageParser_from_text(self, text) ==
  LET paired(r) ==
        IF ~r.ok THEN r
        ELSE IF r.data.fields[1].value \notin DOMAIN self.deadlines
        THEN Raise("KeyError")
        ELSE Parsed(MessageData(r.data.fields, self.sep,
                                self.deadlines[r.data.fields[1].value]), r.rest)
  IN IF text = SPACE_PING
     THEN Parsed(MessageData(<<EmptyData(SPACE_PING)>>, " ", MINIMUM_DEADLINE), "")
     ELSE paired(PairParser_from_text(self, text))

(***************************************************************************)
(* Python text for StringParser.from_text and StringData.to_text.  A str   *)
(* in flight is a sequence of code points; text handed to a parser is a    *)
(* string of printable ASCII characters.  The escapes \N, \u and \U of     *)
(* Python literals are outside the alphabet of the inputs.                 *)
(***************************************************************************)
\* The printable ASCII characters but the grave accent (code 96), which a
\* string of this module cannot hold.
PrintableLow ==
  " !\"#$%&'()*+,-./0123456789:;<=>?@ABCDEFGHIJKLMNOPQRSTUVWXYZ[\\]^_"
PrintableHigh == "abcdefghijklmnopqrstuvwxyz{|}~"

chr(cp) == IF cp < 96 THEN SubSeq(PrintableLow, cp - 31, cp - 31)
           ELSE SubSeq(PrintableHigh, cp - 96, cp - 96)
ord(c) == CHOOSE cp \in (32..126) \ {96} : chr(cp) = c

\* str.encode('utf-8') for code points below 0x800.
RECURSIVE encode(_)
encode(cps) ==
  IF cps = <<>> THEN <<>>
  ELSE (IF Head(cps) < 128 THEN <<Head(cps)>>
        ELSE <<192 + (Head(cps) \div 64), 128 + (Head(cps) % 64)>>) \o encode(Tail(cps))

SimpleEscapes ==
  {<<"\\", 92>>, <<"'", 39>>, <<"\"", 34>>, <<"a", 7>>, <<"b", 8>>, <<"f", 12>>,
   <<"n", 10>>, <<"r", 13>>, <<"t", 9>>, <<"v", 11>>}

\* The code points a Python string literal with this body denotes; not ok
\* for a body Python rejects (a backslash before the closing quote, a \x
\* without two hex digits).
RECURSIVE Unescape(_, _)
Unescape(text, i) ==
  LET Cons(h, r) == IF r.ok THEN [ok |-> TRUE, cps |-> h \o r.cps] ELSE r
      bad == [ok |-> FALSE, cps |-> <<>>]
      c == SubSeq(text, i, i)
      e == SubSeq(text, i + 1, i + 1)
      IsOct(j) == j <= Len(text) /\ DigitValue(SubSeq(text, j, j)) < 8
      Oct(j) == DigitValue(SubSeq(text, j, j))
      IsHex(j) == j <= Len(text) /\ DigitValue(SubSeq(text, j, j)) < 16
  IN IF i > Len(text) THEN [ok |-> TRUE, cps |-> <<>>]
     ELSE IF c # "\\" THEN Cons(<<ord(c)>>, Unescape(text, i + 1))
     ELSE IF i = Len(text) THEN bad
     ELSE IF \E p \in SimpleEscapes : p[1] = e
     THEN Cons(<<(CHOOSE p \in SimpleEscapes : p[1] = e)[2]>>, Unescape(text, i + 2))
     ELSE IF e = "x"
     THEN IF IsHex(i + 2) /\ IsHex(i + 3)
          THEN Cons(<<16 * DigitValue(SubSeq(text, i + 2, i + 2))
                      + DigitValue(SubSeq(text, i + 3, i + 3))>>, Unescape(text, i + 4))
          ELSE bad
     ELSE IF IsOct(i + 1)
     THEN IF IsOct(i + 2) /\ IsOct(i + 3)
          THEN Cons(<<64 * Oct(i + 1) + 8 * Oct(i + 2) + Oct(i + 3)>>, Unescape(text, i + 4))
          ELSE IF IsOct(i + 2)
          THEN Cons(<<8 * Oct(i + 1) + Oct(i + 2)>>, Unescape(text, i + 3))
          ELSE Cons(<<Oct(i + 1)>>, Unescape(text, i + 2))
     ELSE Cons(<<92, ord(e)>>, Unescape(text, i + 2))

\* ast.literal_eval of a quoted literal: the quotes are the first and the
\* last character and the body holds no quote of that kind.
literal_eval(quoted) == Unescape(SubSeq(quoted, 2, Len(quoted) - 1), 1)

StringParser_from_text(self, text) ==
  LET quote == SubSeq(text, 1, 1)
      close == FindSep(Drop(text, 1), quote)
      group1 == Take(text, close + 1)
      group2 == Drop(text, close + 1)
      value == literal_eval(group1)
  IN IF Len(text) = 0 \/ quote \notin {"'", "\""} \/ close = 0 THEN Raise("ParseError")
     ELSE IF ~value.ok THEN Raise("ParseError")
     ELSE IF group2 = "" THEN Parsed(StringData(encode(value.cps)), "")
     ELSE IF Take(group2, Len(self.sep)) = self.sep
     THEN Parsed(StringData(encode(value.cps)), Drop(group2, Len(self.sep)))
     ELSE Raise("ParseError")

\* float() and struct.pack('<f', .) on the decimal literals of the model's
\* lines, as CPython computes them: the literal, the repr of the double it
\* denotes and the four bytes of the nearest single.  Any other text of the
\* model's lines is not a number (ValueError).
FloatLiterals ==
  { [text |-> "0.1", double |-> "0.1", single |-> <<205, 204, 204, 61>>],
    [text |-> "0.5", double |-> "0.5", single |-> <<0, 0, 0, 63>>],
    [text |-> "1", double |-> "1.0", single |-> <<0, 0, 128, 63>>],
    [text |-> "1.5", double |-> "1.5", single |-> <<0, 0, 192, 63>>],
    [text |-> "0.123456789", double |-> "0.123456789", single |-> <<234, 214, 252, 61>>],
    [text |-> "0.123457", double |-> "0.123457", single |-> <<6, 215, 252, 61>>],
    [text |-> "1.23456789", double |-> "1.23456789", single |-> <<82, 6, 158, 63>>],
    [text |-> "1.23457", double |-> "1.23457", single |-> <<100, 6, 158, 63>>] }
\* float(text): blanks around the literal are skipped.
py_float(text) ==
  IF \E f \in FloatLiterals : f.text = strip(text)
  THEN [ok |-> TRUE, value |-> CHOOSE f \in FloatLiterals : f.text = strip(text)]
  ELSE [ok |-> FALSE, value |-> None]

FloatParser_from_text(self, text) ==
  LET parse == SplitSep(text, self.sep)[1]
      rest == SplitSep(text, self.sep)[2]
      value == py_float(parse)
  IN IF ~value.ok THEN Raise("ParseError")
     ELSE Parsed(FloatData(value.value.single, self.units), rest)

from_text(self, text) ==
  CASE self.kind = "IntegerParser" -> IntegerParser_from_text(self, text)
    [] self.kind = "FloatParser" -> FloatParser_from_text(self, text)
    [] self.kind = "StringParser" -> StringParser_from_text(self, text)
    [] self.kind = "IdentifierParser" -> IdentifierParser_from_text(self, text)
    [] self.kind = "ListParser" -> ListParser_from_text(self, text)
    [] self.kind = "PairParser" -> PairParser_from_text(self, text)
    [] self.kind = "MessageParser" -> MessageParser_from_text(self, text)

(***************************************************************************)
(* SpaceData.to_text for empty, integer, byte, string, list and message    *)
(* values.                                                                 *)
(***************************************************************************)
\* mag divided by ten, on little-endian bytes: quotient and remainder.
RECURSIVE DivTen(_)
DivTen(mag) ==
  IF mag = <<>> THEN [quot |-> <<>>, rem |-> 0]
  ELSE LET r == DivTen(Tail(mag))
           v == r.rem * 256 + Head(mag)
       IN [quot |-> <<v \div 10>> \o r.quot, rem |-> v % 10]

\* The decimal digits of mag, "" for zero.
RECURSIVE Decimal(_)
Decimal(mag) ==
  IF \A i \in DOMAIN mag : mag[i] = 0 THEN ""
  ELSE LET r == DivTen(mag)
       IN IF r.rem < 0 THEN "" ELSE Decimal(r.quot) \o str(r.rem)

\* str(value) of a Python int kept as sign and magnitude.
IntegerData_to_text(value) ==
  IF Decimal(value.mag) = "" THEN "0"
  ELSE (IF value.neg THEN "-" ELSE "") \o Decimal(value.mag)

RECURSIVE to_text(_)
\* The join if it left the separator out: a faulty variant.
RECURSIVE join_text_unseparated(_, _, _, _)
join_text_unseparated(fields, sep, lo, hi) ==
  IF lo > hi THEN ""
  ELSE IF lo = hi THEN to_text(fields[lo])
  ELSE LET mid == (lo + hi) \div 2
       IN join_text_unseparated(fields, sep, lo, mid)
          \o join_text_unseparated(fields, sep, mid + 1, hi)

\* sep.join(x.to_text() for x in fields[lo..hi]), joined by halves.
RECURSIVE join_text(_, _, _, _)
join_text(fields, sep, lo, hi) ==
  IF lo > hi THEN ""
  ELSE IF lo = hi THEN to_text(fields[lo])
  ELSE LET mid == (lo + hi) \div 2
       IN join_text(fields, sep, lo, mid) \o sep \o join_text(fields, sep, mid + 1, hi)

\* bytes.decode('utf-8') of ASCII bytes; the bytes that start no UTF-8
\* sequence make it raise.
decode(value) ==
  IF \E i \in DOMAIN value : value[i] \in (128..193) \cup (245..255)
  THEN Raise("UnicodeDecodeError")
  ELSE [ok |-> TRUE, cps |-> value]

\* repr(str): single quotes unless the text holds a single quote and no
\* double quote; the chosen quote and the backslash are escaped, control
\* characters are written as \t, \n, \r or \xNN.
RECURSIVE repr_body(_, _)
repr_body(cps, quote) ==
  IF cps = <<>> THEN ""
  ELSE LET cp == Head(cps)
           hex(d) == SubSeq("0123456789abcdef", d + 1, d + 1)
       IN (CASE cp = 92 \/ cp = ord(quote) -> "\\" \o chr(cp)
             [] cp = 9 -> "\\t"
             [] cp = 10 -> "\\n"
             [] cp = 13 -> "\\r"
             [] cp < 32 \/ cp = 127 -> "\\x" \o hex(cp \div 16) \o hex(cp % 16)
             [] OTHER -> chr(cp)) \o repr_body(Tail(cps), quote)

repr(cps) ==
  LET quote == IF (\E i \in DOMAIN cps : cps[i] = 39) /\ (\A i \in DOMAIN cps : cps[i] # 34)
               THEN "\"" ELSE "'"
  IN quote \o repr_body(cps, quote) \o quote

\* The exception to_text raises for this value, None when it renders.
RECURSIVE to_text_error(_)
to_text_error(data) ==
  CASE data.t = "StringData" ->
         IF decode(data.value).ok THEN None ELSE decode(data.value).error
    [] data.t \in {"ListData", "MessageData"} ->
         LET errors == {to_text_error(data.fields[i]) : i \in DOMAIN data.fields} \ {None}
         IN IF errors = {} THEN None ELSE CHOOSE e \in errors : TRUE
    [] OTHER -> None

\* f"{value:g}" of a double and of a single (six significant digits), on the
\* values of FloatLiterals: a double and the single nearest to it print alike.
format_g(value) ==
  CASE value \in {"0.1", "0.5", "1.5", "0.123457", "1.23457"} -> value
    [] value = "1.0" -> "1"
    [] value = "0.123456789" -> "0.123457"
    [] value = "1.23456789" -> "1.23457"
FloatData_to_text(value) ==
  format_g((CHOOSE f \in FloatLiterals : f.single = value).double)

to_text(data) ==
  CASE data.t = "EmptyData" -> data.label
    [] data.t = "FloatData" -> FloatData_to_text(data.value)
    [] data.t = "IntegerData" -> IntegerData_to_text(data.value)
    [] data.t = "ByteData" ->
         IF data.label # None THEN data.label ELSE str(data.value)
    [] data.t = "StringData" -> repr(decode(data.value).cps)
    [] data.t \in {"ListData", "MessageData"} ->
         join_text(data.fields, data.sep, 1, Len(data.fields))

(***************************************************************************)
(* SpaceCommand (space.py) and the catalogs of ace_common.py, ace_max.py   *)
(* and ace_radhard.py.  Deadlines are in milliseconds.                     *)
(***************************************************************************)
CMD(command_code, command_str, deadline, command_parser, reply_parser) ==
  [command_code |-> command_code, command_str |-> command_str,
   deadline |-> deadline, command_parser |-> command_parser,
   reply_parser |-> reply_parser]
reply_code(command) == command.command_code + 1
reply_str(command) == command.command_str \o "_ack"

TRISTATE ==
  IdentifierTable(NewIdentifierParser(1),
    << <<0, "off", <<"disable", "disabled", "dis", "idle", "0">>>>,
       <<1, "on", <<"enable", "enabled", "en", "active", "1">>>>,
       <<255, "n/a", <<"?", "unchanged", "ignore", "unknown", "-1">>>> >>).self

VALVE_ID ==
  IdentifierTable(NewIdentifierParser(2),
    << <<0, "latch0", <<>>>>,
       <<1, "latch1", <<>>>>,
       <<16, "nonlatch0", <<"momentary0", "non0", "mom0">>>>,
       <<17, "nonlatch1", <<"momentary1", "non1", "mom1">>>>,
       <<18, "nonlatch2", <<"momentary2", "non2", "mom2">>>>,
       <<19, "nonlatch3", <<"momentary3", "non3", "mom3">>>> >>).self

VALVE_STATE ==
  IdentifierTable(NewIdentifierParser(3),
    << <<0, "closed", <<"close", "deenergize", "deenergized">>>>,
       <<1, "open", <<"opened", "energize", "energized">>>> >>).self

UART_ID ==
  IdentifierTable(NewIdentifierParser(4),
    << <<0, "uart0", <<>>>>,
       <<1, "uart1", <<>>>>,
       <<2, "uart2", <<>>>> >>).self

TELEMETRY_ID ==
  IdentifierTable(NewIdentifierParser(5),
    << <<1, "igniter_on", <<"ig_en">>>>,
       <<2, "lvps_voltage", <<"lvps_v">>>>,
       <<3, "lvps_duty", <<>>>>,
       <<4, "vbus_voltage", <<"vbus_v">>>>,
       <<5, "vbus_current", <<"vbus_a">>>>,
       <<6, "scrubber_sbe", <<>>>>,
       <<7, "scrubber_mbe", <<>>>>,
       <<8, "cpu_usage", <<>>>>,
       <<9, "cpu_delay", <<>>>>,
       <<10, "discharge_on", <<>>>>,
       <<11, "discharge_setpoint", <<>>>>,
       <<12, "discharge_period", <<>>>>,
       <<13, "discharge_voltage", <<"discharge_v">>>>,
       <<14, "discharge_cathode", <<>>>>,
       <<15, "discharge_current", <<"discharge_a">>>>,
       <<16, "thruster_state", <<>>>>,
       <<17, "thruster_attempts", <<>>>>,
       <<18, "discharge_current_mean", <<>>>>,
       <<19, "discharge_current_stddev", <<>>>>,
       <<20, "rtd1_discharge_q3", <<"rtd1", "rtd_1_temp">>>>,
       <<21, "rtd2_discharge_q2", <<"rtd2", "rtd_2_temp">>>>,
       <<22, "rtd3_discharge_q1", <<"rtd3", "rtd_3_temp">>>>,
       <<23, "rtd4_discharge_transformer", <<"rtd4", "rtd_4_temp">>>>,
       <<24, "thruster_temp", <<>>>>,
       <<25, "cpu_temp", <<>>>>,
       <<26, "thrust_duration", <<"duration">>>>,
       <<27, "flow_control_current", <<"flow_c", "pfcv">>>>,
       <<30, "valve_latching_0_on", <<"latch0">>>>,
       <<31, "valve_latching_1_on", <<"latch1">>>>,
       <<32, "valve_nonlatching_0_on", <<"nonlatch0">>>>,
       <<33, "valve_nonlatching_1_on", <<"nonlatch1">>>>,
       <<34, "tank_pressure", <<"tank_p">>>>,
       <<35, "plenum_pressure", <<"plenum_p">>>>,
       <<36, "feed_target_pressure", <<"feed_tar_p">>>>,
       <<37, "feed_target_current", <<"feed_tar_a">>>>,
       <<38, "valve_nonlatching_2_on", <<"nonlatch2">>>>,
       <<39, "valve_nonlatching_3_on", <<"nonlatch3">>>>,
       <<40, "adc_ain0", <<>>>>,
       <<41, "adc_ain1", <<>>>>,
       <<42, "adc_ain2", <<>>>>,
       <<43, "adc_ain3", <<>>>>,
       <<44, "adc_ain4", <<>>>>,
       <<45, "adc_ain5", <<>>>>,
       <<46, "adc_ain6", <<>>>>,
       <<47, "adc_ain7", <<>>>>,
       <<50, "adc_amux00", <<>>>>,
       <<51, "adc_amux01", <<>>>>,
       <<52, "adc_amux02", <<>>>>,
       <<53, "adc_amux03", <<>>>>,
       <<54, "adc_amux04", <<>>>>,
       <<55, "adc_amux10", <<>>>>,
       <<56, "adc_amux11", <<>>>>,
       <<57, "adc_amux12", <<>>>>,
       <<58, "adc_amux13", <<>>>>,
       <<59, "adc_amux14", <<>>>>,
       <<60, "valve_latching_0_time", <<"latch0_time">>>>,
       <<61, "valve_latching_1_time", <<"latch1_time">>>>,
       <<62, "valve_nonlatching_0_time", <<"nonlatch0_time">>>>,
       <<63, "valve_nonlatching_1_time", <<"nonlatch1_time">>>>,
       <<64, "valve_nonlatching_2_time", <<"nonlatch2_time">>>>,
       <<65, "valve_nonlatching_3_time", <<"nonlatch3_time">>>>,
       <<70, "edu_load_current", <<"load_a">>>>,
       <<71, "edu_load_power", <<"load_w">>>>,
       <<72, "edu_load_temp", <<"load_t">>>>,
       <<73, "edu_fan_on", <<"fan_on">>>>,
       <<240, "zero", <<>>>>,
       <<241, "forty_two", <<>>>>,
       <<242, "time", <<>>>> >>).self

TELEMETRY_FIELD == PairParser(6, TELEMETRY_ID, FloatParser(7), "=")

CHANNEL_ID ==
  IdentifierTable(NewIdentifierParser(8),
    << <<0, "description", <<>>>>,
       <<1, "console_input", <<>>>>,
       <<2, "console_output", <<>>>>,
       <<3, "space_command", <<>>>>,
       <<4, "space_reply", <<>>>> >>).self

CHANNEL_ENABLE == PairParser(9, CHANNEL_ID, TRISTATE, "=")

HEALTH_ID ==
  IdentifierTable(NewIdentifierParser(10),
    << <<2, "lvps_voltage", <<"lvps_v">>>>,
       <<4, "vbus_voltage", <<"vbus_v">>>>,
       <<5, "vbus_current", <<"vbus_a">>>>,
       <<13, "discharge_voltage", <<"discharge_v">>>>,
       <<14, "discharge_cathode", <<>>>>,
       <<15, "discharge_current", <<"discharge_a">>>>,
       <<16, "discharge_overcurrent", <<>>>>,
       <<17, "thruster_attempts", <<>>>>,
       <<20, "rtd_1_temp", <<"rtd1">>>>,
       <<21, "rtd_2_temp", <<"rtd2">>>>,
       <<22, "rtd_3_temp", <<"rtd3">>>>,
       <<23, "rtd_4_temp", <<"rtd4">>>>,
       <<24, "thruster_temp", <<>>>>,
       <<25, "cpu_temp", <<>>>>,
       <<26, "thrust_duration", <<"duration">>>>,
       <<35, "plenum_pressure", <<>>>>,
       <<72, "edu_load_temp", <<"load_t">>>>,
       <<100, "feed_valve", <<>>>>,
       <<101, "feed_ignited", <<>>>>,
       <<102, "cpu_rebooted", <<"boot">>>>,
       <<103, "config_error", <<"config">>>>,
       <<255, "all", <<>>>> >>).self

CONFIG_ID ==
  IdentifierTable(NewIdentifierParser(11),
    << <<1, "serial_num", <<"serial">>>>,
       <<2, "hw_variant", <<"variant">>>>,
       <<3, "space_address", <<"address">>>>,
       <<4, "part_number", <<"part", "part_num">>>>,
       <<10, "edu_load_disable", <<>>>>,
       <<20, "flow_ignition_amps", <<>>>>,
       <<21, "feed_ignition_amps", <<>>>>,
       <<22, "feed_ignition_psi", <<>>>>,
       <<23, "feed_delta_psi", <<>>>>,
       <<24, "feed_stddev_amps", <<>>>>,
       <<30, "plenum_0psi_volts", <<>>>>,
       <<31, "plenum_ref_volts", <<>>>>,
       <<32, "plenum_ref_psi", <<>>>>,
       <<33, "tank_0psi_volts", <<>>>>,
       <<34, "tank_ref_volts", <<>>>>,
       <<35, "tank_ref_psi", <<>>>>,
       <<36, "vbus_offset_amps", <<>>>>,
       <<255, "all", <<>>>> >>).self

ace_common_COMMANDS ==
  << CMD(16, "igniter", 2,
      FloatParser(12),
      FloatParser(13)),
     CMD(18, "discharge", 2,
      TRISTATE,
      TRISTATE),
     CMD(22, "valve", 5,
      ListParser(14, PairParser(15, VALVE_ID, FloatParser(16), "="), NoMaxLength),
      ListParser(17, PairParser(18, VALVE_ID, VALVE_STATE, "="), NoMaxLength)),
     CMD(24, "flow", 2,
      ListParser(19, FloatParser(20), 1),
      FloatParser(21)),
     CMD(26, "thrust", 2,
      PairParser(22, TRISTATE, ListParser(23, FloatParser(24), 4), " "),
      TRISTATE),
     CMD(28, "feedpres", 2,
      FloatParser(25),
      FloatParser(26)),
     CMD(30, "feedcur", 2,
      FloatParser(27),
      FloatParser(28)),
     CMD(32, "tele", 5,
      ListParser(29, TELEMETRY_ID, NoMaxLength),
      ListParser(30, TELEMETRY_FIELD, NoMaxLength)),
     CMD(34, "telexl", 20,
      ListParser(31, TELEMETRY_ID, NoMaxLength),
      ListParser(32, TELEMETRY_FIELD, NoMaxLength)),
     CMD(36, "telefreq", 5,
      ListParser(33, TELEMETRY_FIELD, NoMaxLength),
      ListParser(34, TELEMETRY_FIELD, NoMaxLength)),
     CMD(38, "telechan", 5,
      ListParser(35, CHANNEL_ENABLE, NoMaxLength),
      ListParser(36, CHANNEL_ENABLE, NoMaxLength)),
     CMD(40, "telestart", 5,
      PairParser(37, UART_ID, IntegerParser(38, 32, FALSE), " "),
      PairParser(39, UART_ID, IntegerParser(40, 32, FALSE), " ")),
     CMD(46, "teleset", 20,
      ListParser(41, TELEMETRY_FIELD, NoMaxLength),
      ListParser(42, TELEMETRY_FIELD, NoMaxLength)),
     CMD(48, "henable", 20,
      ListParser(43, PairParser(44, HEALTH_ID, TRISTATE, "="), NoMaxLength),
      ListParser(45, HEALTH_ID, NoMaxLength)),
     CMD(50, "htrip", 20,
      ListParser(46, HEALTH_ID, NoMaxLength),
      ListParser(47, PairParser(48, HEALTH_ID, FloatParser(49), "="), NoMaxLength)),
     CMD(52, "hreset", 5,
      ListParser(50, HEALTH_ID, NoMaxLength),
      ListParser(51, HEALTH_ID, NoMaxLength)),
     CMD(54, "hconfig", 5,
      PairParser(52, HEALTH_ID, ListParser(53, FloatParser(54), 3), " "),
      PairParser(55, HEALTH_ID, ListParser(56, FloatParser(57), 3), " ")),
     CMD(64, "cvalue", 20,
      PairParser(58, CONFIG_ID, ListParser(59, FloatParser(60), 2), " "),
      PairParser(61, CONFIG_ID, ListParser(62, FloatParser(63), 3), " ")),
     CMD(66, "cstring", 20,
      PairParser(64, CONFIG_ID, ListParser(65, StringParser(66), 2), " "),
      PairParser(67, CONFIG_ID, ListParser(68, StringParser(69), 3), " ")),
     CMD(68, "cerase", 5,
      CONFIG_ID,
      ListParser(70, CONFIG_ID, 1)),
     CMD(2, "sysver", 20,
      NoParser,
      StringParser(71)),
     CMD(4, "echo", 20,
      ListParser(72, ByteParser(73), NoMaxLength),
      ListParser(74, ByteParser(75), NoMaxLength)),
     CMD(6, "delay", 100,
      FloatParser(76),
      FloatParser(77)),
     CMD(8, "sysreset", 2,
      FloatParser(78),
      FloatParser(79)),
     CMD(10, "syspeek", 20,
      PairParser(80, IntegerParser(82, 32, FALSE), ByteParser(81), " "),
      PairParser(83, IntegerParser(86, 32, FALSE), ListParser(84, ByteParser(85), NoMaxLength), " ")),
     CMD(12, "syspoke", 20,
      PairParser(87, IntegerParser(90, 32, FALSE), ListParser(88, ByteParser(89), NoMaxLength), " "),
      PairParser(91, IntegerParser(93, 32, FALSE), ByteParser(92), " ")) >>

MAGCOIL ==
  IdentifierTable(NewIdentifierParser(94),
    << <<0, "inner", <<"in", "0">>>>,
       <<1, "outer", <<"out", "1">>>> >>).self

ace_max_added_COMMANDS ==
  << CMD(20, "magcoil", 5,
      ListParser(95, PairParser(96, MAGCOIL, FloatParser(97), "="), NoMaxLength),
      ListParser(98, PairParser(99, MAGCOIL, FloatParser(100), "="), NoMaxLength)) >>

\* ace_max.py runs "COMMANDS += [...]" on the list object it imported from
\* ace_common, and spacesuit.py imports ace_max before ace_radhard: once the
\* tool's modules are loaded, ace_common.COMMANDS, ace_max.COMMANDS and
\* ace_radhard.COMMANDS all name this one extended list.
COMMANDS == ace_common_COMMANDS \o ace_max_added_COMMANDS
ace_max_COMMANDS == COMMANDS
ace_radhard_COMMANDS == COMMANDS

(***************************************************************************)
(* get_protocol (spacesuit.py): the message-type table and the message     *)
(* parser built from a catalog.                                            *)
(***************************************************************************)
\* "for command in commands: message_type_parser.add(...)" over
\* commands[lo..hi], stopping at the first add that raises.
RECURSIVE add_message_types(_, _, _, _)
add_message_types(self, commands, lo, hi) ==
  IF lo > hi THEN [self |-> self, error |-> None]
  ELSE IF lo = hi
  THEN LET command == commands[lo]
           r1 == IdentifierParser_add(self, command.command_code,
                                      command.command_str, <<>>)
       IN IF r1.error # None THEN r1
          ELSE IdentifierParser_add(r1.self, reply_code(command),
                                    reply_str(command), <<>>)
  ELSE LET mid == (lo + hi) \div 2
           r == add_message_types(self, commands, lo, mid)
       IN IF r.error # None THEN r
          ELSE add_message_types(r.self, commands, mid + 1, hi)

\* PairParser.add
PairParser_add(self, code, parser) ==
  IF code \in DOMAIN self.second_parsers /\ parser.oid # self.second_parsers[code].oid
  THEN [self |-> self, error |-> "InitializationError"]
  ELSE [self |-> [self EXCEPT !.second_parsers = DictSet(self.second_parsers, code, parser)],
        error |-> None]

\* MessageParser.add
MessageParser_add(self, code, parser, deadline) ==
  LET r == PairParser_add(self, code, parser)
  IN IF r.error # None THEN r
     ELSE [self |-> [r.self EXCEPT !.deadlines = DictSet(r.self.deadlines, code, deadline)],
           error |-> None]

\* "for command in commands: message_parser.add(...)" over commands[lo..hi].
RECURSIVE add_message_parsers(_, _, _, _)
add_message_parsers(self, commands, lo, hi) ==
  IF lo > hi THEN [self |-> self, error |-> None]
  ELSE IF lo = hi
  THEN LET command == commands[lo]
           r1 == MessageParser_add(self, command.command_code,
                                   command.command_parser, command.deadline)
       IN IF r1.error # None THEN r1
          ELSE MessageParser_add(r1.self, reply_code(command),
                                 command.reply_parser, NoDeadline)
  ELSE LET mid == (lo + hi) \div 2
           r == add_message_parsers(self, commands, lo, mid)
       IN IF r.error # None THEN r
          ELSE add_message_parsers(r.self, commands, mid + 1, hi)

get_protocol(commands) ==
  LET types == add_message_types(NewIdentifierParser(101), commands,
                                 1, Len(commands))
  IN IF types.error # None THEN types
     ELSE add_message_parsers(MessageParser(102, types.self), commands,
                              1, Len(commands))

\* The message parser of a session started with the default --thruster
\* ace_radhard.
message_parser == get_protocol(ace_radhard_COMMANDS).self

(***************************************************************************)
(* binascii.crc_hqx (CPython: one table lookup per byte; the table entry   *)
(* of i is i * 256 shifted left 8 times through the polynomial 0x1021).    *)
(***************************************************************************)
RECURSIVE crctab_hqx_shift(_, _)
crctab_hqx_shift(v, n) ==
  IF n = 0 THEN v
  ELSE crctab_hqx_shift(IF v >= 32768 THEN BitXor((v * 2) % 65536, 4129)
                        ELSE v * 2, n - 1)
crctab_hqx(i) == crctab_hqx_shift(i * 256, 8)

\* The CRC of data[lo..hi] continued from crc.  The bytes are taken by halves,
\* in order, and the test of left makes the first half's value be computed
\* before the second half starts: both keep the evaluation shallow for a long
\* packet (a CRC is never negative).
RECURSIVE crc_hqx_range(_, _, _, _)
crc_hqx_range(data, lo, hi, crc) ==
  IF lo > hi THEN crc
  ELSE IF lo = hi
  THEN BitXor((crc * 256) % 65536, crctab_hqx(BitXor(crc \div 256, data[lo])))
  ELSE LET mid == (lo + hi) \div 2
           left == crc_hqx_range(data, lo, mid, crc)
       IN IF left < 0 THEN left ELSE crc_hqx_range(data, mid + 1, hi, left)
crc_hqx(data, crc) == crc_hqx_range(data, 1, Len(data), crc)

(***************************************************************************)
(* SpaceProtocol: the frame codec.  self is the session object             *)
(* [address, parser].                                                      *)
(***************************************************************************)
\* The checksum without the final exclusive-or, which the code does not use.
_crc16_no_xor(data) == crc_hqx(data, CRC_INITIAL)

_crc16(data) == BitXor(crc_hqx(data, CRC_INITIAL), CRC_XOR)

\* _to_packet without the test of the body length: a faulty variant.
_to_packet_unchecked(self, message) ==
  LET message_bytes == to_binary(message)
      header == SYNC_SEQUENCE \o <<BitOr(COMMAND_BYTE, self.address)>>
      packet == header \o <<Len(message_bytes) % 256>> \o message_bytes
  IN [ok |-> TRUE,
      packet |-> packet \o struct_pack_H(_crc16(Drop(packet, 2)))]

\* Returns [ok |-> TRUE, packet |-> bytes] or Raise("ParseError").
_to_packet(self, message) ==
  LET message_bytes == to_binary(message)
      header == SYNC_SEQUENCE \o <<BitOr(COMMAND_BYTE, self.address)>>
  IN IF Len(message_bytes) > MAX_MESSAGE_SIZE THEN Raise("ParseError")
     ELSE LET packet == header \o <<Len(message_bytes)>> \o message_bytes
          IN [ok |-> TRUE,
              packet |-> packet \o struct_pack_H(_crc16(Drop(packet, 2)))]

\* Python's None where a status byte is expected.
NoStatus == -1
\* Python's None where a message is expected.
NoneData == [t |-> "None"]
\* Python's (None, None) result.
NoMessage == [ok |-> TRUE, message |-> NoneData, status |-> NoStatus]

\* _from_packet with the checksum taken over one byte less: a faulty variant.
_from_packet_crc_short(self, packet) ==
  IF Len(packet) < 7
     \/ Take(packet, 2) # SYNC_SEQUENCE
     \/ packet[3] # BitOr(REPLY_BYTE, self.address)
  THEN NoMessage
  ELSE LET length == packet[5]
       IN IF length > MAX_MESSAGE_SIZE \/ Len(packet) # length + 7
          THEN NoMessage
          ELSE LET crc == _crc16(SubSeq(packet, 3, 4 + length))
               IN IF struct_pack_H(crc) # SubSeq(packet, 6 + length, 7 + length)
                  THEN NoMessage
                  ELSE LET r == from_binary(self.parser, SubSeq(packet, 6, 5 + length))
                       IN IF ~r.ok THEN r
                          ELSE IF r.rest # <<>> THEN Raise("AssertionError")
                          ELSE [ok |-> TRUE, message |-> r.data, status |-> packet[4]]

\* _from_packet with the status read from the length byte: a faulty variant.
_from_packet_status_of_length(self, packet) ==
  IF Len(packet) < 7
     \/ Take(packet, 2) # SYNC_SEQUENCE
     \/ packet[3] # BitOr(REPLY_BYTE, self.address)
  THEN NoMessage
  ELSE LET length == packet[5]
       IN IF length > MAX_MESSAGE_SIZE \/ Len(packet) # length + 7
          THEN NoMessage
          ELSE LET crc == _crc16(SubSeq(packet, 3, 5 + length))
               IN IF struct_pack_H(crc) # SubSeq(packet, 6 + length, 7 + length)
                  THEN NoMessage
                  ELSE LET r == from_binary(self.parser, SubSeq(packet, 6, 5 + length))
                       IN IF ~r.ok THEN r
                          ELSE IF r.rest # <<>> THEN Raise("AssertionError")
                          ELSE [ok |-> TRUE, message |-> r.data, status |-> packet[5]]

\* Returns [ok |-> TRUE, message, status], NoMessage, or Raise(exception).
_from_packet(self, packet) ==
  IF Len(packet) < 7
     \/ Take(packet, 2) # SYNC_SEQUENCE
     \/ packet[3] # BitOr(REPLY_BYTE, self.address)
  THEN NoMessage
  ELSE LET length == packet[5]
       IN IF length > MAX_MESSAGE_SIZE \/ Len(packet) # length + 7
          THEN NoMessage
          ELSE LET crc == _crc16(SubSeq(packet, 3, 5 + length))
               IN IF struct_pack_H(crc) # SubSeq(packet, 6 + length, 7 + length)
                  THEN NoMessage
                  ELSE LET status == packet[4]
                           r == from_binary(self.parser, SubSeq(packet, 6, 5 + length))
                       IN IF ~r.ok THEN r
                          ELSE IF r.rest # <<>> THEN Raise("AssertionError")
                          ELSE [ok |-> TRUE, message |-> r.data, status |-> status]

(***************************************************************************)
(* The session of the tool (spacesuit.py, get_protocol): one               *)
(* LoggingSpaceProtocol at the default device address.                     *)
(***************************************************************************)
DEFAULT_ADDRESS == 5

\* serial.read(1): the number of bytes one read asks for.
READ_SIZE == 1

(***************************************************************************)
(* The device end of the line.  The device is no part of the repository:   *)
(* its reply frames follow the wire format (sync, 0xB0 | address, status,  *)
(* length, body, CRC low byte first).                                      *)
(***************************************************************************)
ReplyFrameWith(direction, addr, status, body) ==
  LET counted == <<BitOr(direction, addr), status, Len(body)>> \o body
  IN SYNC_SEQUENCE \o counted \o struct_pack_H(_crc16(counted))
ReplyFrame(addr, status, body) == ReplyFrameWith(REPLY_BYTE, addr, status, body)

\* The last byte of a frame with its lowest bit flipped.
FlipLast(frame) ==
  [frame EXCEPT ![Len(frame)] = IF frame[Len(frame)] % 2 = 0
                                 THEN frame[Len(frame)] + 1
                                 ELSE frame[Len(frame)] - 1]

\* 1.5 as an IEEE-754 single, little-endian.
FloatOneAndHalf == <<0, 0, 192, 63>>

\* What the device of the model may put on the line in answer to a command:
\* a reply to ping (status IDLE), tele_ack discharge_cathode=1.5 (status
\* SYSTEM_FAULT|BUSY), telexl_ack discharge_voltage=1.5 discharge_voltage=1
\* (status THRUSTING), a frame whose body has an unregistered message type,
\* and a reply with a wrong checksum.
DeviceFrames ==
  { ReplyFrame(DEFAULT_ADDRESS, 0, <<>>),
    ReplyFrame(DEFAULT_ADDRESS, 129, <<33, 14>> \o FloatOneAndHalf),
    ReplyFrame(DEFAULT_ADDRESS, 2,
               <<35, 13>> \o FloatOneAndHalf \o <<13, 0, 0, 128, 63>>),
    ReplyFrame(DEFAULT_ADDRESS, 64, <<255>>),
    FlipLast(ReplyFrame(DEFAULT_ADDRESS, 2, <<>>)) }

(***************************************************************************)
(* Inputs of the exchange.                                                 *)
(***************************************************************************)
MaxExchanges == 2
\* One step of the model clock, in milliseconds.
Tick == 110

RECURSIVE Repeat(_, _)
Repeat(text, n) ==
  IF n = 0 THEN ""
  ELSE IF n = 1 THEN text
  ELSE Repeat(text, n \div 2) \o Repeat(text, n - (n \div 2))
\* "echo 7 7 ... 7" with n values: a body of n + 1 bytes.
EchoLine(n) == "echo" \o Repeat(" 7", n)

CommandLines ==
  {"ping", EchoLine(MAX_MESSAGE_SIZE - 1), EchoLine(MAX_MESSAGE_SIZE)}
\* The deadline argument of send_message: every caller leaves it at None.
DeadlineArgs == {NoDeadline}

VARIABLES
  address,       \* SpaceProtocol.address
  pc,            \* where send_message is: "idle", "reset", "write" or "read"
  sm_command,    \* its argument command
  sm_arg,        \* its argument deadline, in milliseconds, as the caller gave it
  sm_deadline,   \* its local deadline, in milliseconds
  sm_packet,     \* its local packet
  reply,         \* its local reply: the bytes read so far, each with its origin
  elapsed,       \* time.time() - start_time, in milliseconds
  outcome,       \* how the last call of send_message ended
  _status,       \* SpaceProtocol._status
  telemetry,     \* LoggingSpaceProtocol.telemetry
  serial_in,     \* the input buffer of the serial port
  wire,          \* bytes the device has sent that have not reached the port
  pending,       \* the exchanges whose command the device has not answered
  xid,           \* the number of the current exchange
  flushes,       \* how many times the input buffer was reset
  serial_calls,  \* the calls made on the port in this exchange, in order
  written,       \* the packets written to the port in this exchange
  decodes,       \* the calls of _from_packet in this exchange
  stale,         \* the exchanges whose bytes the last reset threw away
  last_frame,    \* the bytes of the last reply an exchange returned
  c_input, c_status, c_tamper,   \* codec inputs
  c_packet, c_echo, c_frame, c_buffer, c_result, c_again,  \* codec results
  v_input,                       \* a parser and a text or a binary to parse
  v_parsed, v_text, v_binary,    \* the value parsed and its renderings
  v_from_text, v_from_binary,    \* the renderings parsed again
  id_parser,                     \* an IdentifierParser
  id_history,                    \* the calls of add made on it, with their outcome
  id_lookup,                     \* the last from_text or from_binary on it
  g_catalog,                     \* the catalog get_protocol was called on
  g_result,                      \* what get_protocol returned or raised
  g_line, g_parsed,              \* a line parsed with the parser it returned
  sc_run,        \* the script session so far: log, traffic, cache, files, out
  sc_line,       \* the line of the last run_line
  sc_device,     \* how the device answered during it
  sc_count,      \* lines given to run_line so far
  sc_replay,     \* the run of the replay of the log, NotRun before it
  m_macros,      \* LoggingSpaceProtocol.macros, as get_protocol read them
  m_stack,       \* the calls of run_script that have not returned, outermost first
  m_pc           \* where the run_line of a macro name is

exchange_vars ==
  <<pc, sm_command, sm_arg, sm_deadline, sm_packet, reply, elapsed, outcome, _status, telemetry,
    serial_in, wire, pending, xid, flushes, serial_calls, written, decodes,
    stale, last_frame>>
codec_vars ==
  <<c_input, c_status, c_tamper, c_packet, c_echo, c_frame, c_buffer, c_result,
    c_again>>
value_vars ==
  <<v_input, v_parsed, v_text, v_binary, v_from_text, v_from_binary>>
\* The variables of the parts that stand apart from the exchange and the
\* frame codec.
ident_vars == <<id_parser, id_history, id_lookup>>
registry_vars == <<g_catalog, g_result, g_line, g_parsed>>
script_vars == <<sc_run, sc_line, sc_device, sc_count, sc_replay>>
macro_vars == <<m_macros, m_stack, m_pc>>
apart_vars == <<value_vars, ident_vars, registry_vars, script_vars, macro_vars>>
vars == <<address, exchange_vars, codec_vars, apart_vars>>

\* The session object (self): its address and its parser, the parser that
\* get_protocol made, which nothing changes afterwards.
session == [address |-> address, parser |-> message_parser]

\* The command objects the tool makes of the lines.
Commands == {from_text(message_parser, line).data : line \in CommandLines}

\* How a call ended: it is running, it returned a message, it returned None
\* or it raised.
Running == [kind |-> "running", message |-> NoneData, error |-> ""]
Returned(message) == [kind |-> "reply", message |-> message, error |-> ""]
ReturnedNone == [kind |-> "None", message |-> NoneData, error |-> ""]
Raised(error) == [kind |-> "raise", message |-> NoneData, error |-> error]
NotCalled == [kind |-> "not called", message |-> NoneData, error |-> ""]

\* The plain bytes of a sequence of bytes with origins.
Bytes(tagged) == [i \in DOMAIN tagged |-> tagged[i].byte]

\* serial_calls after one more call; successive reads are kept as one entry.
Called(calls, name) ==
  IF calls # <<>> /\ calls[Len(calls)] = name /\ name = "read" THEN calls
  ELSE Append(calls, name)

\* The cache if a pair did not replace the value an earlier pair of the
\* same reply stored: a faulty variant.
telemetry_update_keeps_first(cache, message) ==
  IF Len(message.fields) = 2 /\ message.fields[1].value \in {33, 35}
  THEN LET fields == message.fields[2].fields
           labels == {fields[i].fields[1].label : i \in DOMAIN fields}
           first(label) == CHOOSE i \in DOMAIN fields :
                             /\ fields[i].fields[1].label = label
                             /\ \A j \in DOMAIN fields :
                                  fields[j].fields[1].label = label => j >= i
       IN [label \in DOMAIN cache \cup labels |->
             IF label \in labels THEN fields[first(label)].fields[2].value
             ELSE cache[label]]
  ELSE cache

\* LoggingSpaceProtocol.send_message, the telemetry cache after a reply.
telemetry_update(cache, message) ==
  IF Len(message.fields) = 2 /\ message.fields[1].value \in {33, 35}
  THEN LET fields == message.fields[2].fields
           labels == {fields[i].fields[1].label : i \in DOMAIN fields}
           last(label) == CHOOSE i \in DOMAIN fields :
                            /\ fields[i].fields[1].label = label
                            /\ \A j \in DOMAIN fields :
                                 fields[j].fields[1].label = label => j <= i
       IN [label \in DOMAIN cache \cup labels |->
             IF label \in labels THEN fields[last(label)].fields[2].value
             ELSE cache[label]]
  ELSE cache

(***************************************************************************)
(* SpaceProtocol.send_message (with the telemetry cache of                 *)
(* LoggingSpaceProtocol.send_message), step by step: the device acts       *)
(* between the steps.                                                      *)
(***************************************************************************)
\* The call, the deadline defaults and the packet; _to_packet may raise.
send_message(cmd, deadline_arg) ==
  /\ LET d == IF deadline_arg = NoDeadline THEN cmd.deadline ELSE deadline_arg
         p == _to_packet(session, cmd)
     IN /\ sm_deadline' = IF d = NoDeadline THEN MINIMUM_DEADLINE ELSE d
        /\ IF p.ok
           THEN pc' = "reset" /\ sm_packet' = p.packet /\ outcome' = Running
           ELSE pc' = "idle" /\ sm_packet' = <<>> /\ outcome' = Raised(p.error)
  /\ sm_command' = cmd
  /\ sm_arg' = deadline_arg
  /\ xid' = xid + 1
  /\ reply' = <<>>
  /\ elapsed' = 0
  /\ serial_calls' = <<>>
  /\ written' = <<>>
  /\ decodes' = 0
  /\ UNCHANGED <<_status, telemetry, serial_in, wire, pending, flushes,
                 stale, last_frame, codec_vars, address, apart_vars>>

\* The step of reset_input_buffer if it left the input buffer as it is: a
\* faulty variant.
ResetInputBuffer_keeps ==
  /\ pc = "reset"
  /\ pc' = "write"
  /\ stale' = {}
  /\ flushes' = flushes + 1
  /\ serial_calls' = Called(serial_calls, "reset_input_buffer")
  /\ UNCHANGED <<sm_command, sm_arg, sm_deadline, sm_packet, reply, elapsed, outcome, _status,
                 telemetry, serial_in, wire, pending, xid, written, decodes,
                 last_frame, codec_vars, address, apart_vars>>

\* self.serial.reset_input_buffer()
ResetInputBuffer ==
  /\ pc = "reset"
  /\ pc' = "write"
  /\ serial_in' = <<>>
  /\ stale' = {serial_in[i].x : i \in DOMAIN serial_in}
  /\ flushes' = flushes + 1
  /\ serial_calls' = Called(serial_calls, "reset_input_buffer")
  /\ UNCHANGED <<sm_command, sm_arg, sm_deadline, sm_packet, reply, elapsed, outcome, _status,
                 telemetry, wire, pending, xid, written, decodes, last_frame,
                 codec_vars, address, apart_vars>>

\* self.serial.write(packet); self.serial.flush(); start_time; reply = b''
Write ==
  /\ pc = "write"
  /\ pc' = "read"
  /\ written' = Append(written, sm_packet)
  /\ pending' = pending \cup {xid}
  /\ serial_calls' = Called(Called(serial_calls, "write"), "flush")
  /\ elapsed' = 0
  /\ reply' = <<>>
  /\ UNCHANGED <<sm_command, sm_arg, sm_deadline, sm_packet, outcome, _status, telemetry,
                 serial_in, wire, xid, flushes, decodes, stale, last_frame,
                 codec_vars, address, apart_vars>>

\* One round of the loop in which read(1) gives data: the data joins the
\* reply and the reply is decoded.  (Such a round is short against a step
\* of the model clock; the clock moves in the rounds that wait.)
ReadByte ==
  /\ pc = "read"
  /\ elapsed < sm_deadline + EXTRA_DEADLINE
  /\ serial_in # <<>>
  /\ LET data == Take(serial_in, READ_SIZE)
         buffer == reply \o data
         r == _from_packet(session, Bytes(buffer))
     IN /\ serial_in' = Drop(serial_in, READ_SIZE)
        /\ reply' = buffer
        /\ IF ~r.ok
           THEN /\ pc' = "idle"
                /\ outcome' = Raised(r.error)
                /\ UNCHANGED <<_status, telemetry, last_frame>>
           ELSE IF r.message.t # NoneData.t
           THEN /\ pc' = "idle"
                /\ _status' = r.status
                /\ telemetry' = telemetry_update(telemetry, r.message)
                /\ outcome' = Returned(r.message)
                /\ last_frame' = Bytes(buffer)
           ELSE /\ pc' = "read"
                /\ UNCHANGED <<outcome, _status, telemetry, last_frame>>
  /\ decodes' = decodes + 1
  /\ serial_calls' = Called(serial_calls, "read")
  /\ UNCHANGED <<sm_command, sm_arg, sm_deadline, sm_packet, elapsed, wire, pending, xid, flushes,
                 written, stale, codec_vars, address, apart_vars>>

\* One round of the loop in which read(1) gives nothing: time.sleep.
ReadNothing ==
  /\ pc = "read"
  /\ elapsed < sm_deadline + EXTRA_DEADLINE
  /\ serial_in = <<>>
  /\ elapsed' = elapsed + Tick
  /\ serial_calls' = Called(serial_calls, "read")
  /\ UNCHANGED <<pc, sm_command, sm_arg, sm_deadline, sm_packet, reply, outcome, _status,
                 telemetry, serial_in, wire, pending, xid, flushes, written,
                 decodes, stale, last_frame, codec_vars, address, apart_vars>>

\* The return of None if it also forgot the last status: a faulty variant.
DeadlineExpired_clears_status ==
  /\ pc = "read"
  /\ ~(elapsed < sm_deadline + EXTRA_DEADLINE)
  /\ pc' = "idle"
  /\ outcome' = ReturnedNone
  /\ _status' = NoStatus
  /\ UNCHANGED <<sm_command, sm_arg, sm_deadline, sm_packet, reply, elapsed, telemetry,
                 serial_in, wire, pending, xid, flushes, serial_calls, written,
                 decodes, stale, last_frame, codec_vars, address, apart_vars>>

\* The return of None if the loop condition left EXTRA_DEADLINE out: a faulty
\* variant.
DeadlineExpired_early ==
  /\ pc = "read"
  /\ ~(elapsed < sm_deadline)
  /\ pc' = "idle"
  /\ outcome' = ReturnedNone
  /\ UNCHANGED <<sm_command, sm_arg, sm_deadline, sm_packet, reply, elapsed, _status,
                 telemetry, serial_in, wire, pending, xid, flushes, serial_calls,
                 written, decodes, stale, last_frame, codec_vars, address, apart_vars>>

\* The loop condition fails: return None.
DeadlineExpired ==
  /\ pc = "read"
  /\ ~(elapsed < sm_deadline + EXTRA_DEADLINE)
  /\ pc' = "idle"
  /\ outcome' = ReturnedNone
  /\ UNCHANGED <<sm_command, sm_arg, sm_deadline, sm_packet, reply, elapsed, _status, telemetry,
                 serial_in, wire, pending, xid, flushes, serial_calls, written,
                 decodes, stale, last_frame, codec_vars, address, apart_vars>>

\* The tool calls send_message when no call is running.
SendMessage ==
  /\ pc = "idle"
  /\ xid < MaxExchanges
  /\ \E cmd \in Commands, deadline_arg \in DeadlineArgs : send_message(cmd, deadline_arg)

\* The device answers the command of exchange x with a frame.
device_reply(x, frame) ==
  /\ pending' = pending \ {x}
  /\ wire' = wire \o [i \in DOMAIN frame |-> [byte |-> frame[i], x |-> x]]
  /\ UNCHANGED <<pc, sm_command, sm_arg, sm_deadline, sm_packet, reply, elapsed, outcome, _status,
                 telemetry, serial_in, xid, flushes, serial_calls, written,
                 decodes, stale, last_frame, codec_vars, address, apart_vars>>

\* The device answers a command it has received, at any time after the
\* command was written, with one of its frames.
DeviceReply ==
  /\ pending # {}
  /\ \E x \in pending, frame \in DeviceFrames : device_reply(x, frame)

\* The next byte on the line reaches the input buffer of the port; f is the
\* number of resets of the buffer before it arrived.
Deliver ==
  /\ wire # <<>>
  /\ wire' = Tail(wire)
  /\ serial_in' = Append(serial_in, [byte |-> Head(wire).byte, x |-> Head(wire).x,
                                     f |-> flushes])
  /\ UNCHANGED <<pc, sm_command, sm_arg, sm_deadline, sm_packet, reply, elapsed, outcome, _status,
                 telemetry, pending, xid, flushes, serial_calls, written, decodes,
                 stale, last_frame, codec_vars, address, apart_vars>>

(***************************************************************************)
(* Exchanges with a deadline argument: send_message called with and        *)
(* without an explicit deadline, for commands with and without a           *)
(* registered deadline.                                                    *)
(***************************************************************************)
MaxTimedExchanges == 1
\* ping (2 ms), echo (20 ms), tele (5 ms) and a reply message, which has no
\* registered deadline.
TimedLines == {"ping", "echo 7", "tele 13", "echo_ack 7"}
TimedCommands == {from_text(message_parser, line).data : line \in TimedLines}
\* deadline=None, deadline=0 and deadline=0.150
TimedDeadlineArgs == {NoDeadline, 0, 150}

SendTimed ==
  /\ pc = "idle"
  /\ xid < MaxTimedExchanges
  /\ \E cmd \in TimedCommands, deadline_arg \in TimedDeadlineArgs :
       send_message(cmd, deadline_arg)

(***************************************************************************)
(* The frame codec on its own: _to_packet and _from_packet applied to      *)
(* inputs drawn at the start.                                              *)
(***************************************************************************)
CodecAddresses == {0, DEFAULT_ADDRESS, 15}
CodecStatuses == {0, 129}
CodecTexts ==
  {"ping", "echo 1 2", "tele 13", "sysver",
   EchoLine(MAX_MESSAGE_SIZE - 1), EchoLine(MAX_MESSAGE_SIZE)}
\* Reply bodies: echo_ack 1 2, tele_ack discharge_voltage=1.5, sysver_ack 'v',
\* an unregistered message type, an unknown telemetry identifier, a float cut
\* short, a string without its terminator, and a byte after the last field.
CodecBinaries ==
  { <<5, 1, 2>>, <<33, 13>> \o FloatOneAndHalf, <<3, 118, 0>>,
    <<255>>, <<33, 255>> \o FloatOneAndHalf, <<33, 13, 0, 0>>, <<3, 118>>,
    <<69, 3, 4>> }
CodecInputs ==
  {[kind |-> "text", text |-> t,
    body |-> to_binary(from_text(message_parser, t).data)] : t \in CodecTexts}
  \cup {[kind |-> "binary", text |-> "", body |-> b] : b \in CodecBinaries}
Tampers == {"none", "crc", "extra", "address", "direction", "sync"}

\* The frame the device sends, as it is or damaged.
Tampered(tamper, addr, status, body) ==
  CASE tamper = "none" -> ReplyFrame(addr, status, body)
    [] tamper = "crc" -> FlipLast(ReplyFrame(addr, status, body))
    [] tamper = "extra" -> Append(ReplyFrame(addr, status, body), 0)
    [] tamper = "address" -> ReplyFrame((addr + 1) % 16, status, body)
    [] tamper = "direction" -> ReplyFrameWith(COMMAND_BYTE, addr, status, body)
    [] tamper = "sync" -> [ReplyFrame(addr, status, body) EXCEPT ![2] = 207]

NotRun == Raise("not run")
\* The message of a text input.
c_message == from_text(session.parser, c_input.text).data

\* _to_packet of the message of a text input.
Encode ==
  /\ c_input.kind = "text"
  /\ c_packet = NotRun
  /\ c_packet' = _to_packet(session, c_message)
  /\ UNCHANGED <<c_input, c_status, c_tamper, c_echo, c_frame,
                 c_buffer, c_result, c_again, exchange_vars, address, apart_vars>>

\* _from_packet of the packet _to_packet made.
DecodeEncoded ==
  /\ c_packet.ok
  /\ c_echo = NotRun
  /\ c_echo' = _from_packet(session, c_packet.packet)
  /\ UNCHANGED <<c_input, c_status, c_tamper, c_packet, c_frame,
                 c_buffer, c_result, c_again, exchange_vars, address, apart_vars>>

\* The device sends a reply frame with the input's body.
Transmit ==
  /\ c_frame = <<>>
  /\ \/ c_input.kind = "binary"
     \/ c_echo # NotRun
     \/ c_packet = Raise("ParseError")
  /\ c_frame' = Tampered(c_tamper, address, c_status, c_input.body)
  /\ UNCHANGED <<c_input, c_status, c_tamper, c_packet, c_echo,
                 c_buffer, c_result, c_again, exchange_vars, address, apart_vars>>

\* The next byte of the frame joins the buffer, which is decoded.
Feed ==
  /\ Len(c_buffer) < Len(c_frame)
  /\ c_buffer' = Take(c_frame, Len(c_buffer) + 1)
  /\ c_result' = _from_packet(session, c_buffer')
  /\ c_again' = NotRun
  /\ UNCHANGED <<c_input, c_status, c_tamper, c_packet, c_echo,
                 c_frame, exchange_vars, address, apart_vars>>

\* The same buffer is decoded again.
Redecode ==
  /\ c_buffer # <<>>
  /\ c_again = NotRun
  /\ c_again' = _from_packet(session, c_buffer)
  /\ UNCHANGED <<c_input, c_status, c_tamper, c_packet, c_echo,
                 c_frame, c_buffer, c_result, exchange_vars, address, apart_vars>>

(***************************************************************************)
(* The parsers on their own: a text or a binary is parsed, the value is    *)
(* rendered as text and as binary, and the renderings are parsed again.    *)
(***************************************************************************)
\* The parsers by name.
ParserOf(name) ==
  CASE name = "message" -> message_parser
    [] name = "string" -> StringParser(201)
    [] name = "int8" -> IntegerParser(202, 8, TRUE)
    [] name = "uint8" -> IntegerParser(203, 8, FALSE)
    [] name = "int16" -> IntegerParser(204, 16, TRUE)
    [] name = "uint16" -> IntegerParser(205, 16, FALSE)
    [] name = "int32" -> IntegerParser(206, 32, TRUE)
    [] name = "uint32" -> IntegerParser(207, 32, FALSE)
    [] name = "int64" -> IntegerParser(208, 64, TRUE)
    [] name = "uint64" -> IntegerParser(209, 64, FALSE)
    [] name = "floats" -> ListParser(210, FloatParser(211), NoMaxLength)
    [] name = "uint32s" -> ListParser(212, IntegerParser(213, 32, FALSE), NoMaxLength)
    [] name = "fields" -> ListParser(214, TELEMETRY_FIELD, NoMaxLength)
    [] name = "flags" -> ListParser(215, CHANNEL_ENABLE, NoMaxLength)
    [] name = "pair" ->
         PairParser_add(PairParser_add(PairParser(220, UART_ID, ByteParser(221), "="),
                                       1, IntegerParser(222, 16, FALSE)).self,
                        2, NoParser).self
    [] name = "bare_pair" ->
         PairParser_add(PairParser(223, UART_ID, NoParser, "="),
                        1, IntegerParser(224, 16, FALSE)).self

TextInput(name, text) ==
  [parser |-> name, mode |-> "text", text |-> text, binary |-> <<>>]
BinaryInput(name, binary) ==
  [parser |-> name, mode |-> "binary", text |-> "", binary |-> binary]

\* Command lines, with canonical labels, aliases and decimal codes, with
\* empty lists and with values the parsers refuse; and message bodies.
MessageInputs ==
  {TextInput("message", t) : t \in
     {"ping", "echo 1 2 3 4 5 6 7 8 9 10", "echo", "echo 0x10 010 1_0 +5",
      "echo 256", "echo 1  2", "syspeek 4294967295 4", "syspeek 5",
      "syspoke 305419896 1 2 255", "syspoke 0x10", "discharge on",
      "discharge enable", "discharge -1", "tele 13 14", "tele", "telexl 13",
      "hreset all lvps_v", "henable 2=on boot=off", "telechan 1=on 4=n/a",
      "telestart uart1 1000", "cerase serial", "cerase", "bogus 1"}}
  \cup {BinaryInput("message", b) : b \in
     {<<>>, <<4, 1, 2, 3>>, <<4, 1, 2, 3, 4, 5, 6, 7, 8, 9, 10>>, <<5, 1, 2, 3>>, <<10, 255, 255, 255, 255, 4>>,
      <<12, 120, 86, 52, 18>>, <<18, 255>>, <<32, 13, 14>>, <<52, 255, 2>>,
      <<48, 2, 1, 102, 0>>, <<38, 1, 1>>, <<40, 1, 232, 3, 0, 0>>, <<68, 1>>,
      <<69, 1>>, <<69>>, <<19, 1>>, <<18, 7>>}}

\* Quoted texts and null-terminated bytes for a StringParser.
StringInputs ==
  {TextInput("string", t) : t \in
     {"''", "'abc'", "\"it's\"", "'say \"hi\"'", "'it\\x27s \"x\"'", "'a\\x00b'",
      "'\\0'", "'a\\\\b'", "'\\q'", "'\\101\\n'", "'abc' rest", "\"a b\" 'c'",
      "'abc'x", "abc", "'abc", "'it\\'s'", "'\\x4'", "'\\"}}
  \cup
  {BinaryInput("string", b) : b \in
     {<<0>>, <<97, 98, 99, 0>>, <<105, 116, 39, 115, 0>>, <<34, 104, 105, 34, 0>>,
      <<39, 34, 0>>, <<97, 92, 98, 0>>, <<1, 127, 10, 0>>, <<255, 0>>, <<97>>,
      <<97, 0, 98, 0>>, <<>>}}

\* Literals at the borders of each integer type: the least and the greatest
\* value, their neighbours, and hex literals for 2^(w-1), 2^w - 1, 2^w and
\* 2^w + 2^(w-1).
IntegerLiterals ==
  [int8 |-> [min |-> "-128", max |-> "127", below |-> "-129", above |-> "128", hexhalf |-> "0x80", hexmax |-> "0xFF", hexfull |-> "0X100", hexover |-> "0x180"],
   uint8 |-> [min |-> "0", max |-> "255", below |-> "-1", above |-> "256", hexhalf |-> "0x80", hexmax |-> "0xFF", hexfull |-> "0X100", hexover |-> "0x180"],
   int16 |-> [min |-> "-32768", max |-> "32767", below |-> "-32769", above |-> "32768", hexhalf |-> "0x8000", hexmax |-> "0xFFFF", hexfull |-> "0X10000", hexover |-> "0x18000"],
   uint16 |-> [min |-> "0", max |-> "65535", below |-> "-1", above |-> "65536", hexhalf |-> "0x8000", hexmax |-> "0xFFFF", hexfull |-> "0X10000", hexover |-> "0x18000"],
   int32 |-> [min |-> "-2147483648", max |-> "2147483647", below |-> "-2147483649", above |-> "2147483648", hexhalf |-> "0x80000000", hexmax |-> "0xFFFFFFFF", hexfull |-> "0X100000000", hexover |-> "0x180000000"],
   uint32 |-> [min |-> "0", max |-> "4294967295", below |-> "-1", above |-> "4294967296", hexhalf |-> "0x80000000", hexmax |-> "0xFFFFFFFF", hexfull |-> "0X100000000", hexover |-> "0x180000000"],
   int64 |-> [min |-> "-9223372036854775808", max |-> "9223372036854775807", below |-> "-9223372036854775809", above |-> "9223372036854775808", hexhalf |-> "0x8000000000000000", hexmax |-> "0xFFFFFFFFFFFFFFFF", hexfull |-> "0X10000000000000000", hexover |-> "0x18000000000000000"],
   uint64 |-> [min |-> "0", max |-> "18446744073709551615", below |-> "-1", above |-> "18446744073709551616", hexhalf |-> "0x8000000000000000", hexmax |-> "0xFFFFFFFFFFFFFFFF", hexfull |-> "0X10000000000000000", hexover |-> "0x18000000000000000"]]

NotNumbers == {"abc", "", "1.5", "0x", "0xg", "--1", "1e3"}

IntegerInputs ==
  UNION {{TextInput(p, IntegerLiterals[p][f]) : f \in DOMAIN IntegerLiterals[p]}
         \cup {TextInput(p, t) : t \in NotNumbers \cup {"7 8"}}
         \cup {BinaryInput(p, SubSeq(<<1, 2, 3, 4, 5, 6, 7, 8, 9>>, 1, n)) :
                 n \in {ParserOf(p).bits \div 8 - 1, ParserOf(p).bits \div 8 + 1}}
         \cup {BinaryInput(p, [i \in 1..(ParserOf(p).bits \div 8) |-> 255])}
         : p \in DOMAIN IntegerLiterals}

\* Bytes for list parsers: streams that divide evenly into elements and
\* streams that leave a residue.
ListInputs ==
  {BinaryInput("floats", b) : b \in {<<>>, <<0, 0, 192, 63, 1>>, <<1, 2, 3>>}}
  \cup
  {BinaryInput("uint32s", b) : b \in
     {<<>>, <<1, 0, 0, 0>>, <<1, 0, 0, 0, 2, 0, 0, 0>>, <<1, 0, 0, 0, 2>>,
      <<1, 2, 3, 4, 5, 6, 7>>}}
  \cup
  {BinaryInput("fields", b) : b \in {<<>>, <<13>>, <<13, 0, 0>>, <<99, 0, 0, 0, 0>>}}
  \cup
  {BinaryInput("flags", b) : b \in {<<>>, <<1, 1>>, <<1, 1, 4, 255>>, <<1>>, <<1, 1, 4>>, <<1, 7>>}}

\* Texts and bytes for pair parsers: a discriminant with a second parser of
\* its own (uart1), with none (uart0), registered without one (uart2) and
\* an unknown one.
PairInputs ==
  {TextInput(p, t) : p \in {"pair", "bare_pair"}, t \in
     {"uart1=513", "1=0x201", "uart1", "uart1=70000", "uart0=7", "uart0=300", "uart0",
      "uart2", "uart2=5", "uart0 7", "uart3=1", "uart1=513 uart0"}}
  \cup
  {BinaryInput(p, b) : p \in {"pair", "bare_pair"}, b \in
     {<<1, 1, 2>>, <<1, 1, 2, 3>>, <<1, 1>>, <<1>>, <<0, 7>>, <<0>>, <<2>>, <<2, 5>>, <<3, 1>>, <<>>}}

ValueInputs ==
  MessageInputs \cup StringInputs \cup IntegerInputs \cup ListInputs \cup PairInputs

\* parser.from_text(text) or parser.from_binary(binary)
Parse ==
  /\ v_parsed = NotRun
  /\ v_parsed' = IF v_input.mode = "text"
                 THEN from_text(ParserOf(v_input.parser), v_input.text)
                 ELSE from_binary(ParserOf(v_input.parser), v_input.binary)
  /\ UNCHANGED <<v_input, v_text, v_binary, v_from_text, v_from_binary,
                 address, exchange_vars, codec_vars, ident_vars,
                 registry_vars, script_vars, macro_vars>>

\* value.to_text()
RenderText ==
  /\ v_parsed.ok
  /\ v_text = NotRun
  /\ v_text' = IF to_text_error(v_parsed.data) # None
              THEN Raise(to_text_error(v_parsed.data))
              ELSE [ok |-> TRUE, text |-> to_text(v_parsed.data)]
  /\ UNCHANGED <<v_input, v_parsed, v_binary, v_from_text, v_from_binary,
                 address, exchange_vars, codec_vars, ident_vars,
                 registry_vars, script_vars, macro_vars>>

\* value.to_binary()
RenderBinary ==
  /\ v_parsed.ok
  /\ v_binary = NotRun
  /\ v_binary' = [ok |-> TRUE, bytes |-> to_binary(v_parsed.data)]
  /\ UNCHANGED <<v_input, v_parsed, v_text, v_from_text, v_from_binary,
                 address, exchange_vars, codec_vars, ident_vars,
                 registry_vars, script_vars, macro_vars>>

\* parser.from_text(value.to_text())
ReparseText ==
  /\ v_text.ok
  /\ v_from_text = NotRun
  /\ v_from_text' = from_text(ParserOf(v_input.parser), v_text.text)
  /\ UNCHANGED <<v_input, v_parsed, v_text, v_binary, v_from_binary,
                 address, exchange_vars, codec_vars, ident_vars,
                 registry_vars, script_vars, macro_vars>>

\* parser.from_binary(value.to_binary())
ReparseBinary ==
  /\ v_binary.ok
  /\ v_from_binary = NotRun
  /\ v_from_binary' = from_binary(ParserOf(v_input.parser), v_binary.bytes)
  /\ UNCHANGED <<v_input, v_parsed, v_text, v_binary, v_from_text,
                 address, exchange_vars, codec_vars, ident_vars,
                 registry_vars, script_vars, macro_vars>>

(***************************************************************************)
(* An IdentifierParser built by calls of add, and looked up by from_text   *)
(* and from_binary.                                                        *)
(***************************************************************************)
MaxAdds == 3

\* Arguments of add: codes, labels and aliases that agree and that clash,
\* and codes that are no byte.
AddArgs ==
  {<<code, label, aliases>> : code \in {1, 2}, label \in {"a", "b", "2"},
                              aliases \in {<<>>, <<"x">>, <<"a">>, <<"x", "1">>}}
  \cup {<<300, "a", <<>>>>, <<-1, "b", <<"x">>>>}

IdTexts == {"a", "b", "x", "1", "2", "c", "a b"}
IdBinaries == {<<1>>, <<2>>, <<3>>, <<1, 2>>}

\* parser.add(code, label, aliases): the tables keep what the call stored
\* before it raised.
AddIdentifier ==
  /\ Len(id_history) < MaxAdds
  /\ \E args \in AddArgs :
       LET r == IdentifierParser_add(id_parser, args[1], args[2], args[3])
       IN /\ id_parser' = r.self
          /\ id_history' = Append(id_history,
                                  [code |-> args[1], label |-> args[2],
                                   aliases |-> args[3], error |-> r.error])
  /\ id_lookup' = [mode |-> "none", text |-> "", binary |-> <<>>, result |-> NotRun]
  /\ UNCHANGED <<address, exchange_vars, codec_vars, value_vars,
               registry_vars, script_vars, macro_vars>>

\* parser.from_text(text)
IdentifierFromText ==
  /\ \E t \in IdTexts :
       id_lookup' = [mode |-> "text", text |-> t, binary |-> <<>>,
                     result |-> from_text(id_parser, t)]
  /\ UNCHANGED <<id_parser, id_history, address, exchange_vars, codec_vars, value_vars,
               registry_vars, script_vars, macro_vars>>

\* parser.from_binary(binary)
IdentifierFromBinary ==
  /\ \E b \in IdBinaries :
       id_lookup' = [mode |-> "binary", text |-> "", binary |-> b,
                     result |-> from_binary(id_parser, b)]
  /\ UNCHANGED <<id_parser, id_history, address, exchange_vars, codec_vars, value_vars,
               registry_vars, script_vars, macro_vars>>

(***************************************************************************)
(* get_protocol on a catalog: the shipped ones, and catalogs put together  *)
(* from entries that agree and that clash.                                 *)
(***************************************************************************)
MaxCatalog == 3

CatalogEntries ==
  << CMD(4, "echo", 2,
         ListParser(301, ByteParser(302), NoMaxLength),
         ListParser(303, ByteParser(304), NoMaxLength)),
     CMD(4, "echo", 2, NoParser, NoParser),
     CMD(4, "other", 2, NoParser, NoParser),
     CMD(5, "echo_ack", 2, NoParser, NoParser),
     CMD(6, "echo", 2, NoParser, NoParser),
     CMD(255, "last", 2, NoParser, NoParser),
     CMD(8, "version", 20, NoParser, StringParser(305)) >>

\* A catalog is named by the module it ships in, or is a list of entries of
\* CatalogEntries.
Catalogs ==
  {[module |-> name, picks |-> <<>>] : name \in {"ace_common", "ace_radhard", "ace_max"}}
  \cup
  {[module |-> "", picks |-> picks] :
     picks \in UNION {[1..n -> DOMAIN CatalogEntries] : n \in 1..MaxCatalog}}

CatalogOf(catalog) ==
  CASE catalog.module = "ace_common" -> ace_common_COMMANDS
    [] catalog.module = "ace_radhard" -> ace_radhard_COMMANDS
    [] catalog.module = "ace_max" -> ace_max_COMMANDS
    [] OTHER -> [i \in DOMAIN catalog.picks |-> CatalogEntries[catalog.picks[i]]]

\* get_protocol: the message parser built from the catalog, or the
\* exception an add raised.
GetProtocol ==
  /\ g_result = NotRun
  /\ \E catalog \in Catalogs :
       /\ g_catalog' = catalog
       /\ g_result' = LET r == get_protocol(CatalogOf(catalog))
                      IN IF r.error # None THEN Raise(r.error)
                         ELSE [ok |-> TRUE, parser |-> r.self]
  /\ UNCHANGED <<g_line, g_parsed, address, exchange_vars, codec_vars, value_vars,
                 ident_vars, script_vars, macro_vars>>

\* protocol.parser.from_text(line) on the protocol get_protocol returned.
RegistryFromText ==
  /\ g_result.ok
  /\ g_line = ""
  /\ \E line \in {"echo 1", "echo_ack 1", "version", "last", "other", "cerase serial",
                   "magcoil inner=1.5"} :
       /\ g_line' = line
       /\ g_parsed' = from_text(g_result.parser, line)
  /\ UNCHANGED <<g_catalog, g_result, address, exchange_vars, codec_vars, value_vars,
                 ident_vars, script_vars, macro_vars>>

(***************************************************************************)
(* LoggingSpaceProtocol (spacesuit.py): the script and log layer.  A       *)
(* script, a macro body, a configuration file and the log are each kept as *)
(* the sequence of their lines (text.split('\n')).  A run is what a call   *)
(* leaves behind: the lines written to the log file, the traffic (packets  *)
(* written to the serial port and sleeps of pause), the telemetry cache,   *)
(* the files written, and the outcome (a return value or an exception);    *)
(* config is the text save_config has built so far.  Console output (echo, *)
(* progress bar, warnings) is not kept.                                    *)
(***************************************************************************)
Return(value) == [ok |-> TRUE, value |-> value]
\* "except space.SpaceError" catches the base class and the classes derived
\* from it.
SpaceErrors ==
  {"SpaceError", "InitializationError", "ParseError", "IdentifierUnknown",
   "ParameterInvalid", "ParameterOutOfRange"}

\* The reading of the clock; it is written to comment lines only.
timestamp == "20231005T120000.000Z"

STATUS_FLAGS ==
  << <<128, "SYSTEM_FAULT">>, <<64, "OPERATIONAL_FAULT">>, <<32, "[reserved]">>,
     <<16, "[reserved]">>, <<8, "[reserved]">>, <<4, "[reserved]">>,
     <<2, "THRUSTING">>, <<1, "BUSY">>, <<0, "IDLE">> >>
\* The labels of the flags set in status, highest mask first, joined by ','.
RECURSIVE status_labels(_, _)
status_labels(status, i) ==
  IF i > Len(STATUS_FLAGS) THEN <<>>
  ELSE (IF STATUS_FLAGS[i][1] # 0 /\ (status \div STATUS_FLAGS[i][1]) % 2 = 1
        THEN <<EmptyData(STATUS_FLAGS[i][2])>> ELSE <<>>)
       \o status_labels(status, i + 1)
status_label(status) ==
  LET labels == status_labels(status, 1)
  IN IF labels = <<>> THEN "IDLE"
     ELSE join_text(labels, ",", 1, Len(labels))

(***************************************************************************)
(* The device as the script layer meets it.  The device is no part of the  *)
(* repository: it answers a command with the reply of the next message     *)
(* type and a status byte, or stays silent until the deadline.  One device *)
(* never answers, one answers the first command of a run only, one answers *)
(* every command, and one answers every command but writes one byte less   *)
(* than a syspoke holds and erases no parameter.                           *)
(***************************************************************************)
FloatOne == <<0, 0, 128, 63>>
Devices ==
  { [answers |-> "never", status |-> 0], [answers |-> "first", status |-> 0],
    [answers |-> "always", status |-> 130], [answers |-> "faulty", status |-> 1] }

\* The body of the device's reply to a command body: ping is answered by an
\* empty body; syspoke by the address and the count of bytes written; tele
\* by 1.5 for each field; sysver by 'v'; cvalue and cstring by the live
\* value, the default and, for a command that set a nonvolatile value, that
\* value (the string parameters 1, 2 and 4 have no numeric value); any other
\* command by its own payload.  The faulty device answers syspoke with a
\* count one less and cerase with a blank identifier.
DeviceBody(device, body) ==
  IF body = <<>> THEN <<>>
  ELSE LET code == body[1]
           payload == Drop(body, 1)
           strings == {1, 2, 4}
       IN <<code + 1>> \o
          CASE code = 12 ->
                 Take(payload, 4)
                   \o <<Len(payload) - (IF device.answers = "faulty" THEN 5 ELSE 4)>>
            [] code = 68 /\ device.answers = "faulty" -> <<>>
            [] code = 32 ->
                 IF payload = <<>> THEN <<>>
                 ELSE <<payload[1]>> \o FloatOneAndHalf
            [] code = 2 -> <<118, 0>>
            [] code = 64 ->
                 IF payload[1] \in strings THEN <<payload[1]>>
                 ELSE IF Len(payload) = 1
                 THEN payload \o FloatOneAndHalf \o FloatOne
                 ELSE Take(payload, 5) \o FloatOne \o Drop(payload, 5)
            [] code = 66 ->
                 IF payload[1] \notin strings THEN <<payload[1]>>
                 ELSE IF Len(payload) = 1
                 THEN payload \o <<120, 0, 100, 0>>
                 ELSE LET null == CHOOSE i \in 2..Len(payload) :
                                    payload[i] = 0 /\ \A j \in 2..(i - 1) : payload[j] # 0
                      IN Take(payload, null) \o <<100, 0>> \o Drop(payload, null)
            [] OTHER -> payload

\* SpaceProtocol.send_message from its call to its return, the device
\* answering within the deadline or not at all: the packet written, the reply
\* (NoneData for None) and the status kept for get_status.  sent is the
\* result of _to_packet, answer that of _from_packet on the device's frame.
Exchanged(device, first, sent, answer) ==
  IF ~sent.ok THEN [ok |-> FALSE, error |-> sent.error, packet |-> <<>>,
                    message |-> NoneData, status |-> NoStatus]
  ELSE IF device.answers = "never" \/ (device.answers = "first" /\ ~first)
  THEN [ok |-> TRUE, error |-> None, packet |-> sent.packet,
        message |-> NoneData, status |-> NoStatus]
  ELSE IF ~answer.ok
  THEN [ok |-> FALSE, error |-> answer.error, packet |-> sent.packet,
        message |-> NoneData, status |-> NoStatus]
  ELSE [ok |-> TRUE, error |-> None, packet |-> sent.packet,
        message |-> answer.message, status |-> answer.status]
Exchange(self, command, device, first) ==
  Exchanged(device, first, _to_packet(self, command),
            _from_packet(self, ReplyFrame(self.address, device.status,
                                          DeviceBody(device, to_binary(command)))))

Sent(packet) == [kind |-> "write", packet |-> packet, delay |-> None]
Slept(delay) == [kind |-> "sleep", packet |-> <<>>, delay |-> delay]

\* The telemetry dict after "self.telemetry[field[0].label] = field[1].value"
\* for each field of a tele_ack or telexl_ack payload.
Cached(cache, fields) ==
  LET labels == {fields[i].fields[1].label : i \in DOMAIN fields}
      last(label) == CHOOSE i \in DOMAIN fields :
                       /\ fields[i].fields[1].label = label
                       /\ \A j \in DOMAIN fields :
                            fields[j].fields[1].label = label => j <= i
  IN [label \in DOMAIN cache \cup labels |->
        IF label \in labels THEN fields[last(label)].fields[2].value
        ELSE cache[label]]

\* LoggingSpaceProtocol.send_message after the command lines are written to
\* the log (headed): x is what super().send_message left.
LoggedReply(run, logged, headed, x) ==
  IF ~x.ok
  THEN [run EXCEPT !.log = headed,
                   !.traffic = IF x.packet = <<>> THEN @ ELSE @ \o <<Sent(x.packet)>>,
                   !.out = Raise(x.error)]
  ELSE IF x.message = NoneData
  THEN [run EXCEPT !.log = IF logged THEN headed \o <<"# No reply received", "">>
                            ELSE @,
                   !.traffic = @ \o <<Sent(x.packet)>>,
                   !.out = Return(NoneData)]
  ELSE IF to_text_error(x.message) # None
  THEN [run EXCEPT !.log = headed,
                   !.traffic = @ \o <<Sent(x.packet)>>,
                   !.out = Raise(to_text_error(x.message))]
  ELSE [run EXCEPT !.log = IF logged
                            THEN headed \o
                                 <<"# Status: " \o str(x.status) \o " ("
                                     \o status_label(x.status) \o ")",
                                   "< " \o to_text(x.message), "">>
                            ELSE @,
                   !.traffic = @ \o <<Sent(x.packet)>>,
                   !.cache = IF Len(x.message.fields) = 2
                                /\ x.message.fields[1].value \in {33, 35}
                             THEN Cached(@, x.message.fields[2].fields)
                             ELSE @,
                   !.out = Return(x.message)]

\* LoggingSpaceProtocol.send_message.
LoggingSpaceProtocol_send_message(self, run, command, logged, device) ==
  IF logged /\ to_text_error(command) # None
  THEN [run EXCEPT !.log = @ \o <<"# " \o timestamp>>,
                   !.out = Raise(to_text_error(command))]
  ELSE LoggedReply(run, logged,
                   IF logged
                   THEN run.log \o <<"# " \o timestamp, "> " \o to_text(command)>>
                   ELSE run.log,
                   Exchange(self, command, device,
                            \A i \in DOMAIN run.traffic : run.traffic[i].kind # "write"))

\* SpaceProtocol.send_text, on the logging send_message: parsed is the result
\* of parser.from_text, r the run send_message left.
TextReply(r) ==
  IF ~r.out.ok \/ r.out.value = NoneData
  THEN [r EXCEPT !.out = IF @.ok THEN Return(None) ELSE @]
  ELSE [r EXCEPT !.out = Return(to_text(r.out.value))]
SendParsed(self, run, parsed, logged, device) ==
  IF ~parsed.ok THEN [run EXCEPT !.out = Raise(parsed.error)]
  ELSE IF parsed.rest # "" THEN [run EXCEPT !.out = Raise("ParseError")]
  ELSE TextReply(LoggingSpaceProtocol_send_message(self, run, parsed.data,
                                                   logged, device))
send_text(self, run, command, logged, device) ==
  SendParsed(self, run, from_text(self.parser, command), logged, device)

\* The macro table of the session (get_protocol reads it from the macro
\* file): a macro of commands and a pause, one whose first line is no
\* command, one that calls another, one that calls the one whose first line
\* is no command and goes on, and one that saves the configuration and loads
\* it again.
MACROS ==
  [warmup |-> <<"ping", "pause 0.5", "> echo 1 2">>,
   broken |-> <<"bogus", "ping">>,
   twice |-> <<"warmup", "", "warmup">>,
   retry |-> <<"broken", "echo 1 2">>,
   restore |-> <<"csave saved.cfg", "cload saved.cfg">>]

PIECE_SIZE == 64
\* 0x80000000, the start of FRAM memory; an application image starts 32 KB
\* above it.  An address is kept as its offset from 0x80000000.
BootOffset == 0
AppOffset == 32768
HexDigits == "0123456789abcdef"
RECURSIVE hex(_, _)
hex(n, digits) ==
  IF digits = 0 THEN ""
  ELSE hex(n \div 16, digits - 1) \o SubSeq(HexDigits, (n % 16) + 1, (n % 16) + 1)
\* f"{address:08x}" and str(address) of the address 0x80000000 + offset.
AddressHex(offset) == "8" \o hex(offset, 7)
AddressText(offset) ==
  IntegerData_to_text(
    [neg |-> FALSE,
     mag |-> <<offset % 256, (offset \div 256) % 256, (offset \div 65536) % 256,
               128 + (offset \div 16777216)>>])

\* SpaceProtocol.crc32 on 32-bit values kept as four little-endian bytes.
ShiftRightOne(crc) ==
  <<(crc[1] \div 2) + (crc[2] % 2) * 128, (crc[2] \div 2) + (crc[3] % 2) * 128,
    (crc[3] \div 2) + (crc[4] % 2) * 128, crc[4] \div 2>>
Xor4(a, b) ==
  <<BitXor(a[1], b[1]), BitXor(a[2], b[2]), BitXor(a[3], b[3]), BitXor(a[4], b[4])>>
CRC32_POLYNOMIAL == <<120, 59, 246, 130>>
RECURSIVE crc32_bits(_, _)
crc32_bits(crc, n) ==
  IF n = 0 THEN crc
  ELSE crc32_bits(IF crc[1] % 2 = 1
                  THEN Xor4(ShiftRightOne(crc), CRC32_POLYNOMIAL)
                  ELSE ShiftRightOne(crc), n - 1)
RECURSIVE crc32_range(_, _, _, _)
crc32_range(data, lo, hi, crc) ==
  IF lo > hi THEN crc
  ELSE IF lo = hi
  THEN crc32_bits([crc EXCEPT ![1] = BitXor(@, data[lo])], 8)
  ELSE LET mid == (lo + hi) \div 2
           left == crc32_range(data, lo, mid, crc)
       IN IF left = <<>> THEN left ELSE crc32_range(data, mid + 1, hi, left)
crc32(data) ==
  Xor4(crc32_range(data, 1, Len(data), <<255, 255, 255, 255>>),
       <<255, 255, 255, 255>>)

\* re.match(r'(.*?): (.*?) \((.*?)(?: -> (.*))?\)$', line): the groups, with
\* None for a group that took no part; not ok when the line does not match.
ConfigMatch(line) ==
  LET i == FindSep(line, ": ")
      after == Drop(line, i + 1)
      j == FindSep(after, " (")
      tail == Drop(after, j + 1)
      inner == Take(tail, Len(tail) - 1)
      k == FindSep(tail, " -> ")
  IN IF i = 0 \/ j = 0 \/ tail = "" \/ SubSeq(tail, Len(tail), Len(tail)) # ")"
     THEN [ok |-> FALSE, group |-> <<>>]
     ELSE [ok |-> TRUE,
           group |-> <<Take(line, i - 1), Take(after, j - 1),
                       IF k = 0 THEN inner ELSE Take(tail, k - 1),
                       IF k = 0 THEN None ELSE Drop(inner, k + 3)>>]

\* reply[1][1][i] for a zero-based i: not ok where Python raises IndexError.
ReplyParams(answer) ==
  IF Len(answer.fields) < 2 \/ Len(answer.fields[2].fields) < 2
  THEN [ok |-> FALSE, params |-> <<>>]
  ELSE [ok |-> TRUE, params |-> answer.fields[2].fields[2].fields]

\* A for loop of the layer: Body(run, i) is the run after round i, begun in
\* run.  The rounds lo..hi are taken by halves; an exception ends the loop.
RECURSIVE ForEach(_, _, _, _)
ForEach(Body(_, _), run, lo, hi) ==
  IF lo > hi THEN [run EXCEPT !.out = Return(None)]
  ELSE IF lo = hi THEN Body(run, lo)
  ELSE LET rest(left) == IF ~left.out.ok THEN left
                         ELSE ForEach(Body, left, ((lo + hi) \div 2) + 1, hi)
       IN rest(ForEach(Body, run, lo, (lo + hi) \div 2))

RECURSIVE run_line(_, _, _, _, _)

\* One round of the loop of flash_binary: the piece at this offset.
PieceAt(data, offset) ==
  SubSeq(data, offset + 1,
         IF offset + PIECE_SIZE < Len(data) THEN offset + PIECE_SIZE ELSE Len(data))
\* The test of the reply if any reply were taken for the acknowledgement: a
\* faulty variant.
Poked_any_reply(r, expected) == r
Poked(r, expected) ==
  IF ~r.out.ok THEN r
  ELSE IF r.out.value # expected THEN [r EXCEPT !.out = Raise("SpaceError")]
  ELSE r
flash_piece(self, run, base, data, offset, logged, device) ==
  Poked(run_line(self, run,
                 "syspoke 0x" \o AddressHex(base + offset) \o " "
                   \o join_text([i \in DOMAIN PieceAt(data, offset) |->
                                   ByteData(PieceAt(data, offset)[i], None)],
                                " ", 1, Len(PieceAt(data, offset))),
                 logged, device),
        "syspoke_ack " \o AddressText(base + offset) \o " "
          \o str(Len(PieceAt(data, offset))))

\* One round of the loop of load_config: a line of the configuration file.
\* match is the result of re.match, erased the run after the cerase command
\* (the run as it was when none is sent), parsed the command built from the
\* line, r the run after it was sent.
ConfigLoaded(r) ==
  IF ~r.out.ok THEN r
  ELSE IF r.out.value = NoneData THEN [r EXCEPT !.out = Raise("SpaceError")]
  ELSE IF ~ReplyParams(r.out.value).ok \/ Len(ReplyParams(r.out.value).params) < 2
  THEN [r EXCEPT !.out = Raise("SpaceError")]
  ELSE [r EXCEPT !.out = Return(None)]
\* The step after cerase if an acknowledgement with a blank identifier were
\* taken for an erase: a faulty variant.
ConfigErased_blank(self, erase, erased, parsed, logged, device) ==
  IF erase /\ ~erased.out.ok THEN erased
  ELSE IF erase /\ erased.out.value \in {None, ""}
  THEN [erased EXCEPT !.out = Raise("SpaceError")]
  ELSE IF ~parsed.ok THEN [erased EXCEPT !.out = Raise(parsed.error)]
  ELSE ConfigLoaded(LoggingSpaceProtocol_send_message(self, erased, parsed.data,
                                                      logged, device))
ConfigErased(self, erase, erased, parsed, logged, device) ==
  IF erase /\ ~erased.out.ok THEN erased
  ELSE IF erase /\ erased.out.value \in {None, "", "cerase_ack "}
  THEN [erased EXCEPT !.out = Raise("SpaceError")]
  ELSE IF ~parsed.ok THEN [erased EXCEPT !.out = Raise(parsed.error)]
  ELSE ConfigLoaded(LoggingSpaceProtocol_send_message(self, erased, parsed.data,
                                                      logged, device))
ConfigCommand(group) ==
  (IF startswith(group[2], "\"") \/ startswith(group[2], "'")
   THEN "cstring" ELSE "cvalue")
  \o " " \o group[1] \o " " \o group[2]
  \o (IF group[4] # None THEN " " \o group[4] ELSE "")
ConfigMatched(self, run, match, logged, device) ==
  IF ~match.ok THEN [run EXCEPT !.out = Raise("SpaceError")]
  ELSE ConfigErased(self, match.group[4] = None,
                    IF match.group[4] = None
                    THEN run_line(self, run, "cerase " \o match.group[1], logged, device)
                    ELSE run,
                    from_text(self.parser, ConfigCommand(match.group)),
                    logged, device)
load_config_line(self, run, line, logged, device) ==
  IF line = "" \/ startswith(line, "#") THEN [run EXCEPT !.out = Return(None)]
  ELSE ConfigMatched(self, run, ConfigMatch(line), logged, device)

\* One round of the loop of save_config: a configuration parameter.  r is
\* the run after the cvalue command, s the run after the cstring command,
\* found the parameters of the reply that is written.
ConfigLine(last, label, found) ==
  IF ~found.ok \/ Len(found.params) \notin {2, 3}
  THEN [last EXCEPT !.out = Raise("SpaceError")]
  ELSE [last EXCEPT
          !.config = @ \o <<label \o ": " \o to_text(found.params[1]) \o " ("
                              \o to_text(found.params[2])
                              \o (IF Len(found.params) = 3
                                  THEN " -> " \o to_text(found.params[3])
                                  ELSE "")
                              \o ")">>,
          !.out = Return(None)]
ConfigString(s, label) ==
  IF ~s.out.ok THEN s
  ELSE IF s.out.value = NoneData THEN [s EXCEPT !.out = Raise("SpaceError")]
  ELSE ConfigLine(s, label, ReplyParams(s.out.value))
ConfigValue(self, r, label, logged, device) ==
  IF ~r.out.ok THEN r
  ELSE IF r.out.value = NoneData THEN [r EXCEPT !.out = Return(None)]
  ELSE IF ~ReplyParams(r.out.value).ok THEN [r EXCEPT !.out = Raise("SpaceError")]
  ELSE IF ReplyParams(r.out.value).params = <<>>
  THEN ConfigString(LoggingSpaceProtocol_send_message(
                      self, r, from_text(self.parser, "cstring " \o label).data,
                      logged, device),
                    label)
  ELSE ConfigLine(r, label, ReplyParams(r.out.value))
save_config_field(self, run, label, logged, device) ==
  IF label = "all" THEN [run EXCEPT !.out = Return(None)]
  ELSE ConfigValue(self,
                   LoggingSpaceProtocol_send_message(
                     self, run, from_text(self.parser, "cvalue " \o label).data,
                     logged, device),
                   label, logged, device)

\* run_script: a SpaceError ends the script and is printed; any other
\* exception leaves run_script.
run_script(self, run, script_data, logged, device) ==
  LET ended(r) == IF ~r.out.ok /\ r.out.error \notin SpaceErrors THEN r
                  ELSE [r EXCEPT !.out = Return(None)]
  IN ended(ForEach(LAMBDA r, i : run_line(self, r, script_data[i], logged, device),
                   run, 1, Len(script_data)))

flash_binary(self, run, base, data, logged, device) ==
  ForEach(LAMBDA r, i : flash_piece(self, r, base, data, PIECE_SIZE * (i - 1),
                                    logged, device),
          run, 1, (Len(data) + PIECE_SIZE - 1) \div PIECE_SIZE)

load_config(self, run, config, logged, device) ==
  ForEach(LAMBDA r, i : load_config_line(self, r, config[i], logged, device),
          run, 1, Len(config))

\* The labels of the identifier parser registered for cerase, by code.
ConfigLabels(self) ==
  LET cerase_code == self.parser.first_parser.label_to_code["cerase"]
      config_fields == self.parser.second_parsers[cerase_code].code_to_label
      codes == DOMAIN config_fields
  IN [i \in 1..Cardinality(codes) |->
        config_fields[CHOOSE c \in codes : Cardinality({d \in codes : d < c}) = i - 1]]

\* save_config after its sysver command left the run v.
ConfigFields(self, v, labels, logged, device) ==
  IF ~v.out.ok THEN v
  ELSE ForEach(LAMBDA r, i : save_config_field(self, r, labels[i], logged, device),
               [v EXCEPT !.config =
                  <<"# SPACESUIT thruster configuration parameters snapshot",
                    "# Created: " \o timestamp, "# " \o v.out.value>>],
               1, Len(labels))
save_config(self, run, logged, device) ==
  ConfigFields(self, run_line(self, run, "sysver", logged, device),
               ConfigLabels(self), logged, device)

KB == 1024
\* int.from_bytes(bytes, "little") of len(data) - 4 for a length below 2^24.
LengthField(n) == <<n % 256, (n \div 256) % 256, n \div 65536, 0>>
\* The files at the start: a bootloader image of 128 pieces and a piece of
\* three bytes, bootloader images one byte under the least size and of the
\* size that is too large, application images one byte under the least
\* size, of the size that is too large and of the least size without its
\* length, a file too small to flash, and three configuration files.  A file is kept as its bytes and
\* as its lines; of the bytes of a text file only the count is read, which
\* is under the least size of an image.
BootImage == [i \in 1..(8 * KB + 3) |-> i % 256]
FILES ==
  [ boot |-> [data |-> BootImage, lines |-> <<>>],
    under |-> [data |-> [i \in 1..(8 * KB - 1) |-> i % 256], lines |-> <<>>],
    over |-> [data |-> [i \in 1..(32 * KB) |-> i % 256], lines |-> <<>>],
    appshort |-> [data |-> [i \in 1..(64 * KB - 1) |-> i % 256], lines |-> <<>>],
    appbig |-> [data |-> [i \in 1..((256 - 32) * KB) |-> i % 256], lines |-> <<>>],
    applen |-> [data |-> [i \in 1..(64 * KB) |-> i % 256], lines |-> <<>>],
    small |-> [data |-> <<1, 2, 3>>, lines |-> <<>>],
    thruster |-> [data |-> <<>>,
                  lines |-> <<"# snapshot", "feed_delta_psi: 1.5 (1 -> 1.5)",
                              "serial_num: 'x' ('d')", "">>],
    params |-> [data |-> <<>>,
                lines |-> <<"# snapshot", "serial_num: 'x' ('d')", "",
                            "feed_delta_psi: 1.5 (1 -> 1.5)",
                            "hw_variant: \"y\" (\"d\" -> \"z\")",
                            "space_address: 0.5 (0.5)", "">>],
    garbled |-> [data |-> <<>>, lines |-> <<"feed_delta_psi = 1.5">>] ]
FileNotFound == [data |-> <<>>, lines |-> <<"FileNotFoundError">>]
\* open(path).read(): run.files holds the files written since the start.
open(run, path) ==
  IF path \in DOMAIN run.files THEN run.files[path]
  ELSE IF path \in DOMAIN FILES THEN FILES[path]
  ELSE FileNotFound
\* The paths open(path, 'w') can create: those in a directory that exists.
WritablePaths == {"saved.cfg"}
\* The branches of run_line for the line as stripped (text).
Noted(run, text, logged) ==
  [run EXCEPT !.log = IF logged THEN @ \o <<"# " \o timestamp, "# " \o text, "">>
                      ELSE @]
Failed(run, text, logged) == [Noted(run, text, logged) EXCEPT !.out = Raise("SpaceError")]
Reboot(self, r, logged, device) ==
  IF ~r.out.ok THEN r ELSE run_line(self, r, "sysreset 0.1", logged, device)
Pause(run, delay, logged) ==
  IF ~delay.ok THEN [run EXCEPT !.out = Raise("ParseError")]
  ELSE [run EXCEPT
          !.log = IF logged
                  THEN @ \o <<"# " \o timestamp,
                              "> pause " \o format_g(delay.value.double), "">>
                  ELSE @,
          !.traffic = @ \o <<Slept(delay.value.double)>>,
          !.out = Return(None)]
\* flashboot if the size of the image were not tested: a faulty variant.
FlashBoot_any_size(self, run, text, file, logged, device) ==
  IF file = FileNotFound THEN Failed(run, text, logged)
  ELSE Reboot(self,
              flash_binary(self, Noted(run, text, logged), BootOffset, file.data,
                           logged, device),
              logged, device)
Flash(self, run, text, file, logged, device) ==
  IF file = FileNotFound THEN Failed(run, text, logged)
  ELSE IF Len(file.data) < 64 * KB \/ Len(file.data) >= (256 - 32) * KB
  THEN Failed(run, text, logged)
  ELSE IF SubSeq(file.data, 33, 36) # LengthField(Len(file.data) - 4)
          \/ SubSeq(file.data, Len(file.data) - 3, Len(file.data))
               # crc32(Take(file.data, Len(file.data) - 4))
  THEN Failed(run, text, logged)
  ELSE Reboot(self,
              flash_binary(self, Noted(run, text, logged), AppOffset, file.data,
                           logged, device),
              logged, device)
FlashBoot(self, run, text, file, logged, device) ==
  IF file = FileNotFound THEN Failed(run, text, logged)
  ELSE IF Len(file.data) < 8 * KB \/ Len(file.data) >= 32 * KB
  THEN Failed(run, text, logged)
  ELSE Reboot(self,
              flash_binary(self, Noted(run, text, logged), BootOffset, file.data,
                           logged, device),
              logged, device)
Loaded(r) == IF ~r.out.ok THEN r ELSE [r EXCEPT !.out = Return(None)]
CLoad(self, run, text, file, logged, device) ==
  IF file = FileNotFound THEN Failed(run, text, logged)
  ELSE Loaded(load_config(self, Noted(run, text, logged), file.lines, logged, device))
CSave(path, r) ==
  IF ~r.out.ok THEN [r EXCEPT !.config = <<>>]
  ELSE IF path \notin WritablePaths
  THEN [r EXCEPT !.config = <<>>, !.out = Raise("SpaceError")]
  ELSE [r EXCEPT !.files = (path :> [data |-> <<>>, lines |-> r.config]) @@ @,
                 !.config = <<>>,
                 !.out = Return(None)]
Command(self, run, text, logged, device) ==
  IF text \in DOMAIN MACROS
  THEN run_script(self,
                  [run EXCEPT !.log = IF logged THEN @ \o <<"# MACRO: " \o text>>
                                      ELSE @],
                  MACROS[text], logged, device)
  ELSE IF startswith(text, "pause ") THEN Pause(run, py_float(Drop(text, 6)), logged)
  ELSE IF startswith(text, "flash ")
  THEN Flash(self, run, text, open(run, Drop(text, 6)), logged, device)
  ELSE IF startswith(text, "flashboot ")
  THEN FlashBoot(self, run, text, open(run, Drop(text, 10)), logged, device)
  ELSE IF startswith(text, "cload ")
  THEN CLoad(self, run, text, open(run, Drop(text, 6)), logged, device)
  ELSE IF startswith(text, "csave ")
  THEN CSave(Drop(text, 6), save_config(self, Noted(run, text, logged), logged, device))
  ELSE send_text(self, run, text, logged, device)
Stripped(self, run, text, logged, device) ==
  IF text = "" \/ startswith(text, "#") \/ startswith(text, "<")
  THEN [run EXCEPT !.out = Return(None)]
  ELSE Command(self, run,
               IF startswith(text, ">") THEN strip(Drop(text, 1)) ELSE text,
               logged, device)

run_line(self, run, line, logged, device) ==
  Stripped(self, run, strip(line), logged, device)

(***************************************************************************)
(* The session of the script layer: lines given to run_line one after      *)
(* another (the --command and --interactive modes of main, which catch a   *)
(* SpaceError of a line and go on), and the replay of the session's log    *)
(* file by run_script in a new session (the --script mode).                *)
(***************************************************************************)

MaxLines == 1
NewRun ==
  [log |-> <<>>, traffic |-> <<>>, cache |-> EmptyDict, files |-> EmptyDict,
   config |-> <<>>, out |-> Return(None)]

ScriptLines ==
  { "", "# note", "< ping_ack", ">", "> # text", "> < text",
    "ping", "> ping", ">> ping", "  >  ping  ", "bogus", "ping 1",
    "pause 0.5", "> pause 1.23456789", "pause soon",
    "warmup", "> twice", "broken", "retry", "restore",
    "echo 1 2", "tele discharge_v", "sysreset 0.1", "sysreset 0.123456789",
    "cstring serial 'it\\x27s \"x\"'", "cstring serial \"it's\"",
    "flash app", "flash small", "flashboot boot", "flashboot small",
    "flashboot under", "flashboot over", "flash appshort", "flash appbig",
    "flash applen",
    "cload thruster", "cload params", "cload garbled", "cload absent",
    "csave saved.cfg", "csave missing/saved.cfg", "cload saved.cfg",
    EchoLine(MAX_MESSAGE_SIZE) }
\* The logged argument of run_line: every caller of the tool leaves it True.
LoggedArgs == {TRUE}

RunLine ==
  /\ sc_replay = NotRun
  /\ sc_count < MaxLines
  /\ \E line \in ScriptLines, logged \in LoggedArgs, device \in Devices :
       /\ sc_run' = run_line(session, sc_run, line, logged, device)
       /\ sc_line' = line
       /\ sc_device' = device
  /\ sc_count' = sc_count + 1
  /\ UNCHANGED <<sc_replay, address, exchange_vars, codec_vars, value_vars,
                 ident_vars, registry_vars, macro_vars>>

\* main with --script on the log file of the session, in a new session with
\* the files the first one left.
Replay ==
  /\ sc_replay = NotRun
  /\ sc_count > 0
  /\ \E device \in Devices :
       sc_replay' = run_script(session, [NewRun EXCEPT !.files = sc_run.files],
                               sc_run.log \o <<"">>, TRUE, device)
  /\ UNCHANGED <<sc_run, sc_line, sc_device, sc_count, address, exchange_vars,
                 codec_vars, value_vars, ident_vars, registry_vars, macro_vars>>

InitScript ==
  /\ sc_run = NewRun
  /\ sc_line = ""
  /\ sc_device = [answers |-> "never", status |-> 0]
  /\ sc_count = 0
  /\ sc_replay = NotRun

(***************************************************************************)
(* Macros: the macro file as get_protocol reads it, and the run_line of a  *)
(* macro name step by step.  run_line calls run_script on the body of the  *)
(* macro, which calls run_line on each line; every call is a frame of the  *)
(* interpreter, which raises RecursionError when its limit of frames is    *)
(* reached.                                                                *)
(***************************************************************************)
\* The loop of get_protocol over the lines of the macro file: a line that
\* starts with '#' is skipped, an indented line joins the body of the
\* current key, any other line is the next key.
RECURSIVE macro_file(_, _, _, _)
macro_file(lines, i, current_key, macros) ==
  IF i > Len(lines) THEN macros
  ELSE IF startswith(lines[i], "#") THEN macro_file(lines, i + 1, current_key, macros)
  ELSE IF startswith(lines[i], " ") \/ startswith(lines[i], "\t")
  THEN macro_file(lines, i + 1, current_key,
                  IF current_key \in DOMAIN macros
                  THEN [macros EXCEPT ![current_key] = @ \o <<strip(lines[i])>>]
                  ELSE (current_key :> <<strip(lines[i])>>) @@ macros)
  ELSE macro_file(lines, i + 1, strip(lines[i]), macros)

\* The lines of the macro files of the model, and the files: up to
\* MaxMacroLines lines.
MaxMacroLines == 4
MacroFileLines == {"loop", " loop", "other", " other", " ping", " bogus", "# note"}
MacroFiles == UNION {[1..n -> MacroFileLines] : n \in 1..MaxMacroLines}
\* The macro calls that can be nested before the interpreter raises
\* RecursionError (Python allows 1000 frames, two for each macro call).
RecursionLimit == 4

\* The line as run_line takes it: stripped, without the prefix.
MacroText(line) ==
  IF startswith(strip(line), ">") THEN strip(Drop(strip(line), 1)) ELSE strip(line)
Skipped(line) ==
  strip(line) = "" \/ startswith(strip(line), "#") \/ startswith(strip(line), "<")
\* The line run_script is at, in the innermost call.
MacroFrame == m_stack[Len(m_stack)]
MacroBody == m_macros[MacroFrame.name]
MacroAtLine ==
  /\ m_pc = "running"
  /\ MacroFrame.line <= Len(MacroBody)
\* The device of a macro run answers every command within the deadline.
MacroDevice == [answers |-> "always", status |-> 0]
\* run_line on a line of a macro that is no macro name.
MacroRequestOut == run_line(session, NewRun, MacroBody[MacroFrame.line], TRUE, MacroDevice).out

\* get_protocol reads the macro file.
LoadMacros ==
  /\ m_pc = "start"
  /\ \E file \in MacroFiles : m_macros' = macro_file(file, 1, None, EmptyDict)
  /\ m_pc' = "loaded"
  /\ UNCHANGED <<m_stack, address, exchange_vars, codec_vars, value_vars, ident_vars,
                 registry_vars, script_vars>>

\* run_line on a line that is a key of the macro table: run_script is
\* called on the body.  The key None, of a body before the first name, is
\* no text and no line equals it.
MacroLine ==
  /\ m_pc = "loaded"
  /\ \E line \in DOMAIN m_macros \ {None} :
       /\ ~Skipped(line)
       /\ MacroText(line) = line
       /\ m_stack' = <<[name |-> line, line |-> 1]>>
  /\ m_pc' = "running"
  /\ UNCHANGED <<m_macros, address, exchange_vars, codec_vars, value_vars, ident_vars,
                 registry_vars, script_vars>>

\* run_script gives run_line a line that is ignored or a request that the
\* device answers: the loop goes on with the next line.
MacroRequest ==
  /\ MacroAtLine
  /\ \/ Skipped(MacroBody[MacroFrame.line])
     \/ /\ MacroText(MacroBody[MacroFrame.line]) \notin DOMAIN m_macros
        /\ MacroRequestOut.ok
  /\ m_stack' = [m_stack EXCEPT ![Len(m_stack)].line = @ + 1]
  /\ UNCHANGED <<m_macros, m_pc, address, exchange_vars, codec_vars, value_vars,
                 ident_vars, registry_vars, script_vars>>

\* The end of a call of run_script: the caller goes on, or run_line returns.
Returning ==
  /\ m_stack' = SubSeq(m_stack, 1, Len(m_stack) - 1)
  /\ m_pc' = IF Len(m_stack) = 1 THEN "returned" ELSE "running"
  /\ UNCHANGED <<m_macros, address, exchange_vars, codec_vars, value_vars, ident_vars,
                 registry_vars, script_vars>>

\* run_script gives run_line a request that raises a SpaceError: the script
\* is aborted and run_script returns.
MacroAbort ==
  /\ MacroAtLine
  /\ ~Skipped(MacroBody[MacroFrame.line])
  /\ MacroText(MacroBody[MacroFrame.line]) \notin DOMAIN m_macros
  /\ ~MacroRequestOut.ok
  /\ MacroRequestOut.error \in SpaceErrors
  /\ Returning

\* run_script is past the last line and returns.
MacroReturn ==
  /\ m_pc = "running"
  /\ MacroFrame.line > Len(MacroBody)
  /\ Returning

\* run_script gives run_line a line that is a key of the macro table:
\* run_script is called on its body, if the interpreter has a frame left.
MacroCall ==
  /\ MacroAtLine
  /\ ~Skipped(MacroBody[MacroFrame.line])
  /\ MacroText(MacroBody[MacroFrame.line]) \in DOMAIN m_macros
  /\ Len(m_stack) < RecursionLimit
  /\ m_stack' = [m_stack EXCEPT ![Len(m_stack)].line = @ + 1]
                  \o <<[name |-> MacroText(MacroBody[MacroFrame.line]), line |-> 1]>>
  /\ UNCHANGED <<m_macros, m_pc, address, exchange_vars, codec_vars, value_vars,
                 ident_vars, registry_vars, script_vars>>

\* The same with no frame left: RecursionError, which is no SpaceError,
\* leaves every call of run_script and the run_line of the macro name.
MacroOverflow ==
  /\ MacroAtLine
  /\ ~Skipped(MacroBody[MacroFrame.line])
  /\ MacroText(MacroBody[MacroFrame.line]) \in DOMAIN m_macros
  /\ Len(m_stack) = RecursionLimit
  /\ m_stack' = <<>>
  /\ m_pc' = "RecursionError"
  /\ UNCHANGED <<m_macros, address, exchange_vars, codec_vars, value_vars, ident_vars,
                 registry_vars, script_vars>>

InitMacro ==
  /\ m_macros = EmptyDict
  /\ m_stack = <<>>
  /\ m_pc = "start"

(***************************************************************************)
(* The specifications.                                                     *)
(***************************************************************************)
InitExchange ==
  /\ pc = "idle"
  /\ sm_command = NoneData
  /\ sm_arg = NoDeadline
  /\ sm_deadline = MINIMUM_DEADLINE
  /\ sm_packet = <<>>
  /\ reply = <<>>
  /\ elapsed = 0
  /\ outcome = NotCalled
  /\ _status = NoStatus
  /\ telemetry = EmptyDict
  /\ serial_in = <<>>
  /\ wire = <<>>
  /\ pending = {}
  /\ xid = 0
  /\ flushes = 0
  /\ serial_calls = <<>>
  /\ written = <<>>
  /\ decodes = 0
  /\ stale = {}
  /\ last_frame = <<>>

InitValueResults ==
  /\ v_parsed = NotRun
  /\ v_text = NotRun
  /\ v_binary = NotRun
  /\ v_from_text = NotRun
  /\ v_from_binary = NotRun

\* Nothing of the parts apart is in use.
InitIdentifier ==
  /\ id_parser = NewIdentifierParser(230)
  /\ id_history = <<>>
  /\ id_lookup = [mode |-> "none", text |-> "", binary |-> <<>>, result |-> NotRun]

InitRegistry ==
  /\ g_catalog = [module |-> "", picks |-> <<>>]
  /\ g_result = NotRun
  /\ g_line = ""
  /\ g_parsed = NotRun

InitApart ==
  /\ v_input = TextInput("message", "ping")
  /\ InitValueResults
  /\ InitIdentifier
  /\ InitRegistry
  /\ InitScript
  /\ InitMacro

InitCodecResults ==
  /\ c_packet = NotRun
  /\ c_echo = NotRun
  /\ c_frame = <<>>
  /\ c_buffer = <<>>
  /\ c_result = NotRun
  /\ c_again = NotRun

Init ==
  /\ address = DEFAULT_ADDRESS
  /\ InitExchange
  /\ c_input = [kind |-> "text", text |-> "ping", body |-> <<>>]
  /\ c_status = 0
  /\ c_tamper = "none"
  /\ InitCodecResults
  /\ InitApart

Next ==
  \/ SendMessage
  \/ ResetInputBuffer
  \/ Write
  \/ ReadByte
  \/ ReadNothing
  \/ DeadlineExpired
  \/ DeviceReply
  \/ Deliver

Spec == Init /\ [][Next]_vars

InitCodec ==
  /\ address \in CodecAddresses
  /\ InitExchange
  /\ c_input \in CodecInputs
  /\ c_status \in CodecStatuses
  /\ c_tamper \in Tampers
  /\ InitCodecResults
  /\ InitApart

NextCodec ==
  \/ Encode
  \/ DecodeEncoded
  \/ Transmit
  \/ Feed
  \/ Redecode

SpecCodec == InitCodec /\ [][NextCodec]_vars

NextTimed ==
  \/ SendTimed
  \/ ResetInputBuffer
  \/ Write
  \/ ReadByte
  \/ ReadNothing
  \/ DeadlineExpired
  \/ DeviceReply
  \/ Deliver

SpecTimed == Init /\ [][NextTimed]_vars

InitValue ==
  /\ address = DEFAULT_ADDRESS
  /\ InitExchange
  /\ c_input = [kind |-> "text", text |-> "ping", body |-> <<>>]
  /\ c_status = 0
  /\ c_tamper = "none"
  /\ InitCodecResults
  /\ v_input \in ValueInputs
  /\ InitValueResults
  /\ InitIdentifier
  /\ InitRegistry
  /\ InitScript
  /\ InitMacro

NextValue ==
  \/ Parse
  \/ RenderText
  \/ RenderBinary
  \/ ReparseText
  \/ ReparseBinary

SpecValue == InitValue /\ [][NextValue]_vars

\* An identifier table is built and looked up.
NextIdentifier ==
  \/ AddIdentifier
  \/ IdentifierFromText
  \/ IdentifierFromBinary

SpecIdentifier == Init /\ [][NextIdentifier]_vars

\* A registry is built from a catalog and a line is parsed with it.
NextRegistry ==
  \/ GetProtocol
  \/ RegistryFromText

SpecRegistry == Init /\ [][NextRegistry]_vars

\* The script layer alone.
NextScript ==
  \/ RunLine
  \/ Replay
SpecScript == Init /\ [][NextScript]_vars

\* A macro file is read and a macro of it is run.
NextMacro ==
  \/ LoadMacros
  \/ MacroLine
  \/ MacroRequest
  \/ MacroAbort
  \/ MacroReturn
  \/ MacroCall
  \/ MacroOverflow

SpecMacro == Init /\ [][NextMacro]_vars

(***************************************************************************)
(* The properties of the exchange (specification Spec).                    *)
(***************************************************************************)
\* The order of the port calls of one exchange.
ExchangeCalls == <<"reset_input_buffer", "write", "flush", "read">>

\* Whether the first k bytes of a buffer decode to a message.
Decodes(buffer, k) ==
  LET r == _from_packet(session, Take(buffer, k))
  IN r.ok /\ r.message.t # NoneData.t

\* C1: in every exchange the input buffer is flushed before the command is
\* written, the command frame is written exactly once and then flushed,
\* reads start only after the write, reads are one byte at a time with a
\* decode attempt after each byte, and the call returns the first
\* accumulated prefix that decodes, or None if none decodes within the
\* budget.
C1_ExchangeOrder ==
  /\ \E n \in 0..Len(ExchangeCalls) : serial_calls = Take(ExchangeCalls, n)
  /\ Len(written) <= 1
  /\ (pc = "read" \/ decodes > 0) => written = <<sm_packet>>
  /\ decodes = Len(reply)
  /\ (pc = "idle" /\ serial_calls # <<>>) =>
       \/ /\ outcome.kind = "reply"
          /\ Decodes(Bytes(reply), Len(reply))
          /\ \A k \in 1..(Len(reply) - 1) : ~Decodes(Bytes(reply), k)
          /\ outcome.message = _from_packet(session, Bytes(reply)).message
       \/ /\ outcome.kind = "None"
          /\ \A k \in 1..Len(reply) : ~Decodes(Bytes(reply), k)
          /\ elapsed >= sm_deadline + EXTRA_DEADLINE

\* The status byte of a frame: byte 3, counted from 0.
StatusByte(frame) == frame[4]

\* C2: get_status() is the status byte (byte 3 of the frame) of the most
\* recent exchange that returned a reply, and None if no exchange has
\* returned a reply yet; an exchange that times out leaves it unchanged.
C2_LastStatus ==
  _status = IF last_frame = <<>> THEN NoStatus ELSE StatusByte(last_frame)

\* C2, its case: an exchange returned a reply with status 129, and the next
\* exchange has timed out.
C2_Witness ==
  /\ xid = 2
  /\ outcome.kind = "None"
  /\ last_frame # <<>>
  /\ _status = 129

\* C3 as stated: a reply that an exchange returns holds no byte the device
\* sent in answer to an earlier exchange.
C3_NoEarlierReply ==
  outcome.kind = "reply" => \A i \in DOMAIN reply : reply[i].x = xid

\* C3: every byte of the reply an exchange reads reached the input buffer
\* after the exchange reset the buffer; the bytes that were in the buffer at
\* the reset are in no reply.
C3_OnlyBytesAfterReset ==
  \A i \in DOMAIN reply : reply[i].f = flushes

\* C3, its case: the reset threw bytes of the earlier exchange away and the
\* exchange returned a reply.
C3_Witness ==
  /\ xid = 2
  /\ stale = {1}
  /\ outcome.kind = "reply"

\* C5: a frame with a good checksum and a body the parser cannot parse is
\* treated as not yet complete: no error leaves send_message, which reads on
\* and returns None at the deadline.
C5_NoErrorEscapes ==
  ~(outcome.kind = "raise" /\ decodes > 0)

\* C10: a body of at most 127 bytes is encoded and sent with its length in
\* the length byte; with a longer body send_message fails before the input
\* buffer is reset and before anything is written, and the last status and
\* the telemetry cache stay as they were.
C10_SizeLimit ==
  [][ /\ xid' # xid =>
           IF Len(to_binary(sm_command')) <= 127
           THEN pc' = "reset" /\ outcome' = Running
           ELSE /\ pc' = "idle"
                /\ outcome'.kind = "raise"
                /\ written' = <<>>
                /\ serial_calls' = <<>>
                /\ UNCHANGED <<flushes, serial_in, wire, pending, _status,
                               telemetry>>
      /\ written' # written /\ written' # <<>> =>
           LET body == to_binary(sm_command)
               sent == written'[Len(written')]
           IN /\ Len(body) <= 127
              /\ sent[4] = Len(body)
              /\ SubSeq(sent, 5, 4 + Len(body)) = body
              /\ Len(sent) = Len(body) + 6 ]_vars

\* C10, its case: a command with a body of 128 bytes was refused after an
\* exchange had set the status and the telemetry cache.
C10_Witness ==
  /\ outcome.kind = "raise"
  /\ decodes = 0
  /\ Len(to_binary(sm_command)) = 128
  /\ _status = 129
  /\ DOMAIN telemetry # {}

(***************************************************************************)
(* The properties of the codec (specification SpecCodec).                  *)
(***************************************************************************)
\* CRC-16/CCITT bit by bit, most significant bit first, polynomial 0x1021.
RECURSIVE RefXor(_, _, _)
RefXor(a, b, bits) ==
  IF bits = 0 THEN 0
  ELSE ((a + b) % 2) + 2 * RefXor(a \div 2, b \div 2, bits - 1)

RECURSIVE RefShift(_, _)
RefShift(crc, k) ==
  IF k = 0 THEN crc
  ELSE RefShift(IF crc >= 32768 THEN RefXor((2 * crc) % 65536, 4129, 16)
                ELSE 2 * crc, k - 1)

RECURSIVE RefCrcRange(_, _, _, _)
RefCrcRange(data, lo, hi, crc) ==
  IF lo > hi THEN crc
  ELSE IF lo = hi THEN RefShift(RefXor(crc, data[lo] * 256, 16), 8)
  ELSE LET mid == (lo + hi) \div 2
           left == RefCrcRange(data, lo, mid, crc)
       IN IF left < 0 THEN left ELSE RefCrcRange(data, mid + 1, hi, left)

\* The checksum of the protocol: initial value 0xFFFF, result XOR 0xACE1.
RefCrc(data) == RefXor(RefCrcRange(data, 1, Len(data), 65535), 44257, 16)

\* Whether a buffer is a whole reply frame for the session's address.
RefFramed(b) ==
  /\ Len(b) >= 7
  /\ b[1] = 26 /\ b[2] = 206
  /\ b[3] = 176 + address
  /\ b[5] <= 127
  /\ Len(b) = 7 + b[5]
  /\ LET crc == RefCrc(SubSeq(b, 3, 5 + b[5]))
     IN b[Len(b) - 1] = crc % 256 /\ b[Len(b)] = crc \div 256

\* Whether the body of a whole frame parses with nothing left over.
RefParses(b) ==
  LET r == from_binary(message_parser, SubSeq(b, 6, 5 + b[5]))
  IN r.ok /\ r.rest = <<>>

\* C4: _from_packet returns a message and the status byte exactly when the
\* buffer starts with 1A CE, its third byte is 0xB0 | address, its length
\* byte is at most 127, it is 7 + length bytes long, its last two bytes are
\* the checksum of bytes 2 .. 4 + length, low byte first, and the body
\* parses with nothing left over; in every other case it returns
\* (None, None).
C4_DecoderAccepts ==
  c_buffer # <<>> =>
    IF RefFramed(c_buffer) /\ RefParses(c_buffer)
    THEN /\ c_result.ok
         /\ c_result.message.t # NoneData.t
         /\ c_result.status = c_buffer[4]
    ELSE c_result = NoMessage

\* Whether the input is a reply the device sends undamaged, with a body of
\* at most 127 bytes that parses.
WellFormedReply ==
  /\ c_tamper = "none"
  /\ Len(c_input.body) <= 127
  /\ LET r == from_binary(message_parser, c_input.body)
     IN r.ok /\ r.rest = <<>>

\* C6: while a well-formed reply frame is fed byte by byte, _from_packet
\* returns (None, None) for every proper prefix and the parsed message and
\* status for the whole frame; decoding the same buffer again gives the
\* same result.
C6_Monotone ==
  /\ (c_frame # <<>> /\ c_buffer # <<>> /\ WellFormedReply) =>
       IF Len(c_buffer) < Len(c_frame)
       THEN c_result = NoMessage
       ELSE c_result = [ok |-> TRUE,
                        message |-> from_binary(message_parser, c_input.body).data,
                        status |-> c_status]
  /\ c_again # NotRun => c_again = c_result

\* C6, its case: a whole well-formed frame with a body was decoded twice.
C6_Witness ==
  /\ WellFormedReply
  /\ Len(c_input.body) > 1
  /\ c_buffer = c_frame
  /\ c_frame # <<>>
  /\ c_result.ok
  /\ c_again = c_result

C8_CommandFrame ==
  [][ (c_packet' # c_packet /\ Len(c_input.body) <= 127) =>
        LET n == Len(c_input.body)
            covered == <<160 + address, n>> \o c_input.body
            crc == RefCrc(covered)
        IN /\ c_packet'.ok
           /\ c_packet'.packet =
                <<26, 206>> \o covered \o <<crc % 256, crc \div 256>> ]_vars

\* C8, its case: a command with a body of 127 bytes was encoded for
\* address 15.
C8_Witness ==
  /\ c_packet # NotRun
  /\ c_packet.ok
  /\ Len(c_input.body) = 127
  /\ address = 15

\* C9 as stated: "ping" at address 5 is encoded as 1A CE A5 00 5F 31.
C9_PingFrameStated ==
  (c_input.text = "ping" /\ address = 5 /\ c_packet # NotRun) =>
    (c_packet.ok /\ c_packet.packet = <<26, 206, 165, 0, 95, 49>>)

\* C9: "ping" at address 5 is encoded as 1A CE A5 00 65 53.
C9_PingFrame ==
  (c_input.text = "ping" /\ address = 5 /\ c_packet # NotRun) =>
    (c_packet.ok /\ c_packet.packet = <<26, 206, 165, 0, 101, 83>>)

\* C9, its case: "ping" was encoded for address 5.
C9_Witness ==
  /\ c_input.kind = "text"
  /\ c_input.text = "ping"
  /\ address = 5
  /\ c_packet # NotRun

(***************************************************************************)
(* The properties of the wait budget (specification SpecTimed).            *)
(***************************************************************************)
\* The deadline the catalog registers for a command code, in milliseconds.
RegisteredDeadline(code) ==
  LET entries == {i \in DOMAIN ace_radhard_COMMANDS :
                    ace_radhard_COMMANDS[i].command_code = code}
  IN IF entries = {} THEN NoDeadline
     ELSE ace_radhard_COMMANDS[CHOOSE i \in entries : TRUE].deadline

\* The deadline the current command should carry: 2 ms for ping, otherwise
\* what the catalog registers for its code.
CarriedDeadline ==
  IF sm_command.fields[1].t = "EmptyData" THEN 2
  ELSE RegisteredDeadline(sm_command.fields[1].value)

\* The deadline d of the current exchange: the argument if one was given,
\* otherwise the command's deadline, otherwise 2 ms.
WaitDeadline ==
  IF sm_arg # NoDeadline THEN sm_arg
  ELSE IF CarriedDeadline # NoDeadline THEN CarriedDeadline
  ELSE 2

\* C11: an exchange returns None only after d + 100 ms have passed without
\* a decodable reply, where d is the deadline argument if one was given,
\* otherwise the deadline registered for the command's code, otherwise
\* 2 ms; a command parsed from text carries the deadline registered for its
\* code, and ping carries 2 ms.
C11_WaitBudget ==
  xid > 0 =>
    /\ sm_command.deadline = CarriedDeadline
    /\ outcome.kind = "None" =>
         /\ elapsed >= WaitDeadline + 100
         /\ \A k \in 1..Len(reply) : ~Decodes(Bytes(reply), k)

\* C11, its case: echo, whose registered deadline is 20 ms, was sent with a
\* deadline of 150 ms and the exchange returned None after 250 ms or more.
C11_Witness ==
  /\ outcome.kind = "None"
  /\ sm_arg = 150
  /\ sm_command.deadline = 20
  /\ elapsed >= 250

\* C11, another case: a message without a registered deadline was sent
\* without a deadline and the exchange returned None.
C11_WitnessFallback ==
  /\ outcome.kind = "None"
  /\ sm_arg = NoDeadline
  /\ sm_command.deadline = NoDeadline
  /\ sm_deadline = 2

\* ---------------------------------------------------------------------------
\* Values built only from integers, bytes, identifiers, lists and pairs.
RECURSIVE PlainValue(_)
PlainValue(data) ==
  CASE data.t \in {"EmptyData", "IntegerData", "ByteData"} -> TRUE
    [] data.t \in {"ListData", "MessageData"} ->
         \A i \in DOMAIN data.fields : PlainValue(data.fields[i])
    [] OTHER -> FALSE

EchoTenText == "echo 1 2 3 4 5 6 7 8 9 10"
EchoTenBody == <<4, 1, 2, 3, 4, 5, 6, 7, 8, 9, 10>>

\* C12: a message of integers, bytes, identifiers, lists and pairs that the
\* message parser produced survives both round trips: parsing its text form
\* gives the same value and leaves no text, parsing its binary form gives the
\* same value and leaves no bytes.  The text `echo 1 2 3 4 5 6 7 8 9 10`
\* renders to the body 04 01 .. 0A and `ping` renders to the empty body.
C12_RoundTrip ==
  (v_input.parser = "message" /\ v_parsed.ok /\ PlainValue(v_parsed.data)) =>
    /\ v_from_text # NotRun => v_from_text = Parsed(v_parsed.data, "")
    /\ v_from_binary # NotRun => v_from_binary = Parsed(v_parsed.data, <<>>)
    /\ (v_binary # NotRun /\ v_input = TextInput("message", EchoTenText)) =>
         v_binary.bytes = EchoTenBody
    /\ (v_binary # NotRun /\ v_input = TextInput("message", "ping")) =>
         v_binary.bytes = <<>>
    /\ (v_text # NotRun /\ v_input = BinaryInput("message", EchoTenBody)) =>
         v_text.text = EchoTenText
    /\ (v_text # NotRun /\ v_input = BinaryInput("message", <<>>)) =>
         v_text.text = "ping"

C12_Witness ==
  /\ v_input = TextInput("message", EchoTenText)
  /\ v_binary = [ok |-> TRUE, bytes |-> EchoTenBody]
  /\ v_from_text = Parsed(v_parsed.data, "")
  /\ v_from_binary = Parsed(v_parsed.data, <<>>)
  /\ Len(v_parsed.data.fields[2].fields) = 10

\* C13: every string a StringParser produced from text survives both round
\* trips: parsing the text it renders to gives the same bytes and leaves no
\* text, parsing the bytes it encodes to gives the same bytes and leaves no
\* bytes.
C13_StringRoundTrip ==
  (v_input.parser = "string" /\ v_input.mode = "text" /\ v_parsed.ok) =>
    /\ v_from_text # NotRun => v_from_text = Parsed(v_parsed.data, "")
    /\ v_from_binary # NotRun => v_from_binary = Parsed(v_parsed.data, <<>>)

\* C14: for every width and signedness, IntegerParser.from_text accepts the
\* least and the greatest value of the type, wraps a hex literal from
\* 2^(w-1) on under signed into two's complement, fails with
\* ParameterInvalid for the neighbours of the range and for hex literals
\* from 2^w on, fails with ParseError for a token that is not a number, and
\* an accepted value renders to w/8 bytes that decode back to it.
C14_IntegerText ==
  (v_input.parser \in DOMAIN IntegerLiterals /\ v_input.mode = "text" /\ v_parsed # NotRun) =>
    LET lit == IntegerLiterals[v_input.parser]
        self == ParserOf(v_input.parser)
    IN /\ v_input.text \in {lit.min, lit.max} => v_parsed.ok
       /\ v_input.text \in {lit.below, lit.above, lit.hexfull, lit.hexover} =>
            v_parsed = Raise("ParameterInvalid")
       /\ v_input.text \in {lit.hexhalf, lit.hexmax} => v_parsed.ok
       /\ (self.signed /\ v_input.text = lit.hexhalf /\ v_text # NotRun) =>
            v_text.text = lit.min
       /\ (self.signed /\ v_input.text = lit.hexmax /\ v_text # NotRun) =>
            v_text.text = "-1"
       /\ v_input.text \in NotNumbers => v_parsed = Raise("ParseError")
       /\ (v_parsed.ok /\ v_binary # NotRun) => Len(v_binary.bytes) = self.bits \div 8
       /\ (v_parsed.ok /\ v_from_binary # NotRun) =>
            v_from_binary = Parsed(v_parsed.data, <<>>)

\* C15: a list parser given bytes that do not divide evenly into elements
\* (five bytes for 4-byte floats or 32-bit integers, a pair without its
\* value bytes) fails with ParseError: no other failure, no shortened list.
C15_ResidueIsParseError ==
  LET size == [floats |-> 4, uint32s |-> 4, fields |-> 5, flags |-> 2]
  IN (/\ v_input.mode = "binary"
      /\ v_input.parser \in DOMAIN size
      /\ v_parsed # NotRun) =>
       (Len(v_input.binary) % size[v_input.parser] # 0 => v_parsed = Raise("ParseError"))

\* The discriminant an input of the pair parsers starts with (-1 when it is
\* not a registered one), and whether anything follows it.
PairCode ==
  LET labels == [uart0 |-> 0, uart1 |-> 1, uart2 |-> 2]
      token == SplitSep(v_input.text, "=")[1]
  IN IF v_input.mode = "binary"
     THEN IF v_input.binary # <<>> /\ v_input.binary[1] \in 0..2 THEN v_input.binary[1] ELSE -1
     ELSE IF token \in DOMAIN labels THEN labels[token]
     ELSE IF token \in {"0", "1", "2"} THEN CHOOSE n \in 0..2 : str(n) = token
     ELSE -1

PairTailEmpty ==
  IF v_input.mode = "binary" THEN Len(v_input.binary) = 1
  ELSE SplitSep(v_input.text, "=")[2] = ""

SuccessfulAdds == {i \in DOMAIN id_history : id_history[i].error = None}

\* The names a call of add registers: the label, the decimal form of the
\* code and the aliases.
NamesOf(h) == {h.label, str(h.code)} \cup {h.aliases[i] : i \in DOMAIN h.aliases}

\* add fails with InitializationError exactly when the code is registered
\* with a different label, or the label, the decimal form of the code or an
\* alias resolves to a different code.
AddConflicts ==
  [][(id_history' # id_history /\ Len(id_history') > 0) =>
       LET h == id_history'[Len(id_history')]
           conflict ==
             \/ /\ h.code \in DOMAIN id_parser.code_to_label
                /\ id_parser.code_to_label[h.code] # h.label
             \/ \E n \in NamesOf(h) :
                  /\ n \in DOMAIN id_parser.label_to_code
                  /\ id_parser.label_to_code[n] # h.code
       IN h.code \in 0..255 => ((h.error = "InitializationError") <=> conflict)]_vars

\* The label, the decimal code and every alias of an add that succeeded
\* parse from text to that code with its canonical label, and the code
\* decodes from binary to the same label.
Canonical ==
  \A i \in SuccessfulAdds :
    LET h == id_history[i]
    IN /\ (id_lookup.mode = "text" /\ id_lookup.text \in NamesOf(h)) =>
            /\ id_lookup.result = Parsed(ByteData(h.code, h.label), "")
            /\ to_text(id_lookup.result.data) = h.label
       /\ (id_lookup.mode = "binary" /\ id_lookup.binary = <<h.code>>) =>
            /\ id_lookup.result = Parsed(ByteData(h.code, h.label), <<>>)
            /\ to_text(id_lookup.result.data) = h.label

\* C16: IdentifierParser.add fails with InitializationError when the code
\* is registered with a different label or when the label, the decimal form
\* of the code or an alias resolves to a different code; the names of every
\* add that succeeded parse to its code with its canonical label, in text
\* and in binary.
C16_Identifiers == AddConflicts /\ []Canonical

C16_Witness ==
  /\ Len(id_history) = 3
  /\ id_history[1].error = None
  /\ id_history[2].error = "InitializationError"
  /\ id_history[3].error = None
  /\ id_history[3].aliases = <<"x", "1">>
  /\ id_lookup.mode = "text"
  /\ id_lookup.text = "x"
  /\ id_lookup.result.ok

\* The code and the name of every entry of the catalog that was built.
CatalogPairs ==
  LET commands == CatalogOf(g_catalog)
  IN {<<commands[i].command_code, commands[i].command_str>> : i \in DOMAIN commands}

\* The tables are consistent with the catalog: codes and names are unique,
\* every reply code is the command code plus one under the name plus _ack,
\* no reply code is a command code, and both codes have a parser entry.
ConsistentTables ==
  LET types == g_result.parser.first_parser
      parsers == g_result.parser.second_parsers
  IN /\ \A p, q \in CatalogPairs : (p[1] = q[1] \/ p[2] = q[2]) => p = q
     /\ \A p, q \in CatalogPairs : p[1] + 1 # q[1]
     /\ \A p \in CatalogPairs :
          /\ p[1] \in DOMAIN types.code_to_label
          /\ types.code_to_label[p[1]] = p[2]
          /\ p[1] + 1 \in DOMAIN types.code_to_label
          /\ types.code_to_label[p[1] + 1] = p[2] \o "_ack"
          /\ p[1] \in DOMAIN parsers
          /\ p[1] + 1 \in DOMAIN parsers

\* C18: get_protocol either fails with InitializationError or returns
\* tables that are consistent with the catalog, and the catalog of
\* ace_common builds without error.
C18_Registry ==
  g_result # NotRun =>
    /\ g_result = Raise("InitializationError") \/ (g_result.ok /\ ConsistentTables)
    /\ g_catalog.module = "ace_common" => g_result.ok

\* The catalogs the tool ships build into consistent tables.
ShippedRegistry ==
  (g_result # NotRun /\ g_catalog.module # "") => (g_result.ok /\ ConsistentTables)

\* ---------------------------------------------------------------------------
\* C19: a line that starts with `>` is handled as the line without the
\* prefix: run_line('>' + L) leaves the same log, traffic, telemetry, files
\* and outcome as run_line(L) does from the same session and with the same
\* device; so `>` alone, `> # text` and `> < text` are ignored without
\* traffic and without an error.
C19_PrefixReclassified ==
  [][(sc_count' = sc_count + 1 /\ startswith(sc_line', ">"))
     => sc_run' = run_line(session, sc_run, Drop(sc_line', 1), TRUE, sc_device')]_vars

\* What a run sent, in order: the packets of the command messages and the
\* places of the pauses.
Sequel(traffic) ==
  [i \in DOMAIN traffic |-> [kind |-> traffic[i].kind, packet |-> traffic[i].packet]]
Ignorable(line) ==
  strip(line) = "" \/ startswith(strip(line), "#") \/ startswith(strip(line), "<")

\* C20: the log of a session is a script: replayed with run_script, its blank
\* lines and its lines starting with `#` or `<` cause no traffic, and the
\* replay sends the command messages of the session, the same packets in the
\* same order, with the pauses at the same positions.
C20_LogIsScript ==
  sc_replay # NotRun =>
    /\ \A i \in DOMAIN sc_run.log :
         Ignorable(sc_run.log[i]) =>
           \A device \in Devices :
             run_line(session, NewRun, sc_run.log[i], TRUE, device).traffic = <<>>
    /\ Sequel(sc_replay.traffic) = Sequel(sc_run.traffic)

\* ---------------------------------------------------------------------------
\* The lines `> <command text>` that send_message wrote to a log (run_line
\* writes the lines of a pause, and no command is named pause).
CommandLogged(log, i) ==
  startswith(log[i], "> ") /\ ~startswith(log[i], "> pause ")
\* The line before is the timestamp header.
HeadedAt(log, i) == i > 1 /\ log[i - 1] = "# " \o timestamp
\* The lines after are one outcome: the status comment, the reply and a
\* blank line, or the comment that no reply was received and a blank line;
\* the next entry, if any, starts after it.
OutcomeAt(log, i) ==
  \/ /\ i + 3 <= Len(log)
     /\ startswith(log[i + 1], "# Status: ")
     /\ startswith(log[i + 2], "< ")
     /\ log[i + 3] = ""
  \/ /\ i + 2 <= Len(log)
     /\ log[i + 1] = "# No reply received"
     /\ log[i + 2] = ""

\* C21: with logging enabled, every exchange leaves in the log, in order,
\* the timestamp header, the line `> <command text>` and exactly one outcome
\* (status comment, `< <reply text>` and a blank line, or `# No reply
\* received` and a blank line): no logged command line is left without its
\* outcome, whatever way the exchange ends.
C21_LoggedOutcome ==
  \A i \in DOMAIN sc_run.log :
    CommandLogged(sc_run.log, i) =>
      HeadedAt(sc_run.log, i) /\ OutcomeAt(sc_run.log, i)

\* ---------------------------------------------------------------------------
\* The type codes the registry gives the replies to tele and telexl.
TelemetryReplyCodes ==
  {message_parser.first_parser.label_to_code[name] : name \in {"tele_ack", "telexl_ack"}}
\* The exchange ends in this step and returns a tele or telexl reply (the
\* reply to ping has an empty body and no type code).
TelemetryReturned ==
  /\ pc = "read" /\ pc' = "idle"
  /\ outcome'.kind = "reply"
  /\ Len(outcome'.message.fields) = 2
  /\ outcome'.message.fields[1].value \in TelemetryReplyCodes
\* The pairs of a tele or telexl reply, in the order of the payload.
TelemetryPairs(message) ==
  [i \in DOMAIN message.fields[2].fields |->
     [label |-> message.fields[2].fields[i].fields[1].label,
      value |-> message.fields[2].fields[i].fields[2].value]]
\* The labels under which the identifier parser of the telemetry fields
\* prints a code.
TelemetryLabels == {TELEMETRY_ID.code_to_label[c] : c \in DOMAIN TELEMETRY_ID.code_to_label}

\* C22: the telemetry cache changes only in a step in which an exchange
\* returns a reply with the type code of the tele or telexl response; then
\* every pair of the reply is in the cache under its canonical label, with
\* the value of the last pair of that label, and every other entry is as it
\* was; a step that ends an exchange in any other way, or no exchange,
\* leaves the cache as it is.
C22_TelemetryCache ==
  [][IF TelemetryReturned
     THEN /\ \A i \in DOMAIN TelemetryPairs(outcome'.message) :
               /\ TelemetryPairs(outcome'.message)[i].label \in TelemetryLabels
               /\ TelemetryPairs(outcome'.message)[i].label \in DOMAIN telemetry'
               /\ (\A j \in DOMAIN TelemetryPairs(outcome'.message) :
                     j > i => TelemetryPairs(outcome'.message)[j].label
                                # TelemetryPairs(outcome'.message)[i].label)
                  => telemetry'[TelemetryPairs(outcome'.message)[i].label]
                       = TelemetryPairs(outcome'.message)[i].value
          /\ \A label \in DOMAIN telemetry :
               /\ label \in DOMAIN telemetry'
               /\ (\A i \in DOMAIN TelemetryPairs(outcome'.message) :
                     TelemetryPairs(outcome'.message)[i].label # label)
                  => telemetry'[label] = telemetry[label]
          /\ \A label \in DOMAIN telemetry' :
               \/ label \in DOMAIN telemetry
               \/ \E i \in DOMAIN TelemetryPairs(outcome'.message) :
                    TelemetryPairs(outcome'.message)[i].label = label
     ELSE telemetry' = telemetry]_vars

\* A telexl reply that named discharge_voltage twice was stored over the
\* cache an earlier tele reply had left: the later value is in the cache
\* and the entry of the tele reply is as it was.
C22_Witness ==
  /\ xid = 2
  /\ pc = "idle"
  /\ outcome.kind = "reply"
  /\ Len(outcome.message.fields) = 2
  /\ outcome.message.fields[1].value = 35
  /\ Len(TelemetryPairs(outcome.message)) = 2
  /\ DOMAIN telemetry = {"discharge_voltage", "discharge_cathode"}
  /\ telemetry["discharge_voltage"] = TelemetryPairs(outcome.message)[2].value
  /\ telemetry["discharge_voltage"] # TelemetryPairs(outcome.message)[1].value

\* ---------------------------------------------------------------------------
\* The image a flash or flashboot line names is accepted: the file exists,
\* its size is in the range of the command and, for flash, it holds its
\* length and its checksum.
FlashLine(line) == startswith(line, "flash ") \/ startswith(line, "flashboot ")
FlashFile(before, line) ==
  open(before, Drop(line, IF startswith(line, "flash ") THEN 6 ELSE 10))
FlashImage(line) == FlashFile(NewRun, line).data
FlashAcceptedAfter(before, line) ==
  /\ FlashLine(line)
  /\ FlashFile(before, line) # FileNotFound
  /\ IF startswith(line, "flash ")
     THEN /\ Len(FlashFile(before, line).data) >= 64 * KB
          /\ Len(FlashFile(before, line).data) < 224 * KB
          /\ SubSeq(FlashFile(before, line).data, 33, 36)
               = LengthField(Len(FlashFile(before, line).data) - 4)
          /\ SubSeq(FlashFile(before, line).data, Len(FlashFile(before, line).data) - 3,
                    Len(FlashFile(before, line).data))
               = crc32(Take(FlashFile(before, line).data,
                            Len(FlashFile(before, line).data) - 4))
     ELSE /\ Len(FlashFile(before, line).data) >= 8 * KB
          /\ Len(FlashFile(before, line).data) < 32 * KB
FlashAccepted(line) == FlashAcceptedAfter(NewRun, line)
\* The four bytes of the address 0x80000000 + offset, low byte first.
AddressBytes(offset) ==
  <<offset % 256, (offset \div 256) % 256, (offset \div 65536) % 256,
    128 + (offset \div 16777216)>>
\* The message of the k-th syspoke of an image written at base, and of the
\* reply that acknowledges it.
PokeBody(base, data, k) ==
  <<12>> \o AddressBytes(base + 64 * (k - 1))
    \o SubSeq(data, 64 * (k - 1) + 1, IF 64 * k < Len(data) THEN 64 * k ELSE Len(data))
PokeAck(base, data, k) ==
  <<13>> \o AddressBytes(base + 64 * (k - 1))
    \o <<(IF 64 * k < Len(data) THEN 64 * k ELSE Len(data)) - 64 * (k - 1)>>
\* The message sysreset 0.1.
ResetBody == <<8, 205, 204, 204, 61>>
\* The messages of the packets a run wrote, in order.
WrittenBodies(traffic) ==
  LET writes == SelectSeq(traffic, LAMBDA e : e.kind = "write")
  IN [k \in DOMAIN writes |-> SubSeq(writes[k].packet, 5, Len(writes[k].packet) - 2)]
\* What run_line added to the traffic of the session.
LineTraffic(before, after) == Drop(after.traffic, Len(before.traffic))
\* The device answers the k-th command of a line: always, or only the first
\* command of the session.
Answers(before, device, k) ==
  \/ device.answers \in {"always", "faulty"}
  \/ /\ device.answers = "first"
     /\ k = 1
     /\ WrittenBodies(before.traffic) = <<>>
\* The device answered the k-th command of the line, a syspoke, with this
\* acknowledgement.
Acknowledged(before, device, k, body, ack) ==
  /\ Answers(before, device, k)
  /\ DeviceBody(device, body) = ack
\* The traffic of a flash or flashboot line with an accepted image.
FlashSequence(before, after, line, device) ==
  LET data == FlashFile(before, line).data
      base == IF startswith(line, "flash ") THEN AppOffset ELSE BootOffset
      pieces == (Len(data) + 63) \div 64
      sent == WrittenBodies(LineTraffic(before, after))
  IN /\ Len(sent) >= 1
     /\ Len(sent) <= pieces + 1
     /\ Len(sent) = Len(LineTraffic(before, after))
     /\ \A k \in DOMAIN sent :
          sent[k] = IF k <= pieces THEN PokeBody(base, data, k) ELSE ResetBody
     /\ \A k \in DOMAIN sent :
          k > 1 => Acknowledged(before, device, k - 1, sent[k - 1],
                                PokeAck(base, data, k - 1))
     /\ Len(sent) <= pieces =>
          /\ ~Acknowledged(before, device, Len(sent), sent[Len(sent)],
                           PokeAck(base, data, Len(sent)))
          /\ ~after.out.ok
          /\ after.out.error = "SpaceError"

C23_WitnessAbort ==
  /\ sc_count = 1
  /\ FlashAccepted(sc_line)
  /\ Len(sc_run.traffic) = 2
  /\ ~sc_run.out.ok

\* ---------------------------------------------------------------------------
\* The address a syspoke message writes first, as its offset from
\* 0x80000000, and the count of bytes it writes.
PokeOffset(body) ==
  body[2] + 256 * body[3] + 65536 * body[4] + 16777216 * (body[5] - 128)
PokeCount(body) == Len(body) - 5

RestoreCommands ==
  [ thruster |-> <<"cvalue feed_delta_psi 1.5 1.5",
                   "cerase serial_num", "cstring serial_num 'x'">>,
    params |-> <<"cerase serial_num", "cstring serial_num 'x'",
                 "cvalue feed_delta_psi 1.5 1.5",
                 "cstring hw_variant \"y\" \"z\"",
                 "cerase space_address", "cvalue space_address 0.5">> ]
\* The message of a command text.
BodyOf(text) == to_binary(from_text(session.parser, text).data)
\* The device answered the k-th command of the line; a cerase with an
\* acknowledgement that names the parameter.
Answered(before, device, k, text) ==
  /\ Answers(before, device, k)
  /\ startswith(text, "cerase ") => Len(DeviceBody(device, BodyOf(text))) > 1
\* The traffic of a cload line on one of the files.
Restored(before, after, commands, device) ==
  LET sent == WrittenBodies(LineTraffic(before, after))
  IN /\ Len(sent) >= 1
     /\ Len(sent) <= Len(commands)
     /\ Len(sent) = Len(LineTraffic(before, after))
     /\ \A k \in DOMAIN sent : sent[k] = BodyOf(commands[k])
     /\ \A k \in DOMAIN sent :
          k > 1 => Answered(before, device, k - 1, commands[k - 1])
     /\ Len(sent) < Len(commands)
          => ~Answered(before, device, Len(sent), commands[Len(sent)])
     /\ after.out.ok <=> Answered(before, device, Len(sent), commands[Len(sent)])
     /\ ~after.out.ok => after.out.error = "SpaceError"

C25_WitnessBlank ==
  /\ sc_count = 1
  /\ sc_line = "cload params"
  /\ sc_device.answers = "faulty"
  /\ Len(sc_run.traffic) = 1
  /\ ~sc_run.out.ok

\* ---------------------------------------------------------------------------
\* The exceptions of a request line that cannot be parsed: ParseError and
\* the classes derived from it.
RequestErrors ==
  {"ParseError", "IdentifierUnknown", "ParameterInvalid", "ParameterOutOfRange"}
\* The line as run_line classifies it: stripped, without the prefix `>`.
CommandText(line) ==
  IF startswith(strip(line), ">") THEN strip(Drop(strip(line), 1)) ELSE strip(line)
\* The line raises one of these exceptions when it is run by itself.
Unparsed(line, device) ==
  /\ ~run_line(session, NewRun, line, TRUE, device).out.ok
  /\ run_line(session, NewRun, line, TRUE, device).out.error \in RequestErrors
\* The lines of a script without those that cannot be parsed.
Parsable(script_data, device) ==
  SelectSeq(script_data, LAMBDA line : ~Unparsed(line, device))

\* C26: a request line that raises a parse, identifier or parameter error
\* ends that line only: nothing is written to the port or to the log for
\* it and the telemetry cache is as it was, and the lines after it are
\* executed, those of the same script too: a script leaves what it leaves
\* without the lines that cannot be parsed.
C26_LineOnly ==
  sc_count > 0 =>
    /\ (~sc_run.out.ok /\ sc_run.out.error \in RequestErrors) =>
         /\ sc_run.log = <<>>
         /\ sc_run.traffic = <<>>
         /\ sc_run.cache = EmptyDict
    /\ CommandText(sc_line) \in DOMAIN MACROS =>
         /\ sc_run.traffic =
              run_script(session, NewRun,
                         Parsable(MACROS[CommandText(sc_line)], sc_device),
                         TRUE, sc_device).traffic
         /\ sc_run.cache =
              run_script(session, NewRun,
                         Parsable(MACROS[CommandText(sc_line)], sc_device),
                         TRUE, sc_device).cache

\* ---------------------------------------------------------------------------
\* The message types of a list of commands: the code and the name of every
\* command and of its reply.
TypesOf(commands) ==
  {<<commands[i].command_code, commands[i].command_str>> : i \in DOMAIN commands}
  \cup {<<commands[i].command_code + 1, commands[i].command_str \o "_ack">> :
          i \in DOMAIN commands}
\* The message types a registry recognises.
Registered(parser) ==
  {<<code, parser.first_parser.code_to_label[code]>> :
     code \in DOMAIN parser.first_parser.code_to_label}

\* C27: the registry is built from the catalog of the selected variant
\* only.  For ace_radhard it holds exactly the message types of the common
\* catalog: magcoil (0x14) and magcoil_ack (0x15) are not registered and a
\* magcoil line is not parsed; for ace_max it holds these two as well.
C27_VariantCatalog ==
  g_result.ok =>
    /\ g_catalog.module = "ace_radhard" =>
         /\ Registered(g_result.parser) = TypesOf(ace_common_COMMANDS)
         /\ "magcoil" \notin DOMAIN g_result.parser.first_parser.label_to_code
         /\ 20 \notin DOMAIN g_result.parser.first_parser.code_to_label
         /\ 21 \notin DOMAIN g_result.parser.first_parser.code_to_label
         /\ g_line = "magcoil inner=1.5" => ~g_parsed.ok
    /\ g_catalog.module = "ace_max" =>
         Registered(g_result.parser)
           = TypesOf(ace_common_COMMANDS) \cup {<<20, "magcoil">>, <<21, "magcoil_ack">>}

\* ---------------------------------------------------------------------------
\* A script run line by line up to the first line that raises, in the
\* script or in a macro a line of it names: the run at the end, with the
\* exception if there was one.
RECURSIVE Aborting(_, _, _, _)
Aborting(run, script_data, i, device) ==
  IF i > Len(script_data) THEN run
  ELSE LET done ==
             IF ~Ignorable(script_data[i]) /\ CommandText(script_data[i]) \in DOMAIN MACROS
             THEN Aborting([run EXCEPT !.log = @ \o <<"# MACRO: "
                                                       \o CommandText(script_data[i])>>],
                           MACROS[CommandText(script_data[i])], 1, device)
             ELSE run_line(session, run, script_data[i], TRUE, device)
       IN IF ~done.out.ok THEN done ELSE Aborting(done, script_data, i + 1, device)

\* C28: a SpaceError raised by a line during run_script ends the script at
\* that line: no later line of the script is executed and no further
\* command is sent, also when the line is in a macro the script invoked:
\* the lines of the outer script after the macro call are not executed
\* either.
C28_ScriptAborts ==
  (sc_count > 0 /\ ~Ignorable(sc_line) /\ CommandText(sc_line) \in DOMAIN MACROS) =>
    /\ sc_run.traffic =
         Aborting(NewRun, MACROS[CommandText(sc_line)], 1, sc_device).traffic
    /\ Drop(sc_run.log, 1) =
         Aborting(NewRun, MACROS[CommandText(sc_line)], 1, sc_device).log

\* ---------------------------------------------------------------------------
\* C29: executing a macro always terminates: for every macro table read
\* from a macro file, also one with a macro whose body holds its own name
\* or with macros that name each other, the run_line of a macro name runs
\* finitely many lines and returns, every exchange returning within its
\* deadline.
C29_MacroReturns == m_pc # "RecursionError"

\* ---------------------------------------------------------------------------
\* The exchange ends in this step and returns a message.
ReplyReturned ==
  /\ pc = "read" /\ pc' = "idle"
  /\ outcome'.kind = "reply"
\* The message belongs to the command: its type code is the code of the
\* command + 1, or both bodies are empty (ping and its reply).
BelongsTo(message, command) ==
  IF to_binary(command) = <<>>
  THEN to_binary(message) = <<>>
  ELSE /\ to_binary(message) # <<>>
       /\ to_binary(message)[1] = to_binary(command)[1] + 1

\* C30: an exchange returns a reply only if the reply belongs to the
\* command just sent: the type code of the returned reply is the code of
\* the command + 1, or the body is empty when the command was ping; a
\* well-formed reply frame of any other registered type is not returned as
\* the reply to the command and does not change last_status.
C30_ReplyBelongs ==
  [][/\ ReplyReturned => BelongsTo(outcome'.message, sm_command)
     /\ _status' # _status
          => ReplyReturned /\ BelongsTo(outcome'.message, sm_command)]_vars

====
